---- MODULE Spec2Model ----
(***************************************************************************)
(* The multi-agent change-orchestration pipeline of AI_Agent_Team:         *)
(*   - Change Generator   (.github/scripts/backend_agent.py)               *)
(*   - Diff Reviewer      (.github/scripts/code_reviewer.py)               *)
(*   - Self-Healing Fixer (.github/scripts/backend_agent_fix.py)           *)
(* Each run is a run-to-completion process; runs coordinate only through   *)
(* the hosting platform (pull request, reviews, comments) and the commit   *)
(* history of the pull-request branch.                                     *)
(***************************************************************************)
EXTENDS Integers, Sequences, FiniteSets, TLC

\* ------------------------------------------------------------------ bounds
\* Number of Self-Healing Fixer runs that may be in progress at once.
NFixers == 2
\* Number of changes-requested triggers delivered for the pull request.
MaxFixerRuns == 4
\* The same, where overlapping runs race for the branch.
RaceRuns == 5
\* Number of review triggers delivered to the Diff Reviewer on its own.
MaxReviewRuns == 2
\* Number of issue-assigned triggers delivered for the issue.
MaxGenRuns == 3
\* Largest stats.critical the review service reports.
MaxCritical == 1
\* Commits on the pull-request branch after which the pipeline starts no
\* further fixer run.
MaxPipelineCommits == 3

\* ------------------------------------------------------- program constants
MAX_FIX_ATTEMPTS == 3

\* Commit messages are sequences of words; the marker is the --grep pattern.
Marker == <<"fix:", "address", "code", "review">>
DefaultFixMessage == <<"fix:", "address", "code", "review", "findings">>

\* Messages the generation service can put in "commit_message".
ServiceFixMessages ==
    { <<"fix:", "resolve", "review", "issues">> }

\* ---------------------------------------------------------------- helpers
\* git log --grep=<pattern>: the pattern occurs somewhere in the message.
Matches(msg) ==
    \E i \in 1..Len(msg) :
        /\ i + Len(Marker) - 1 <= Len(msg)
        /\ SubSeq(msg, i, i + Len(Marker) - 1) = Marker

\* One output line per matching commit of the checked-out history; 0 when the
\* output is empty.
check_fix_attempt_count(log) ==
    Cardinality({i \in DOMAIN log : Matches(log[i].msg)})

IsPrefix(s, t) == Len(s) <= Len(t) /\ SubSeq(t, 1, Len(s)) = s

Commit(m, who) == [msg |-> m, by |-> who]

FixerCommits(log) == Cardinality({i \in DOMAIN log : log[i].by = "fixer"})

Fixers == 1..NFixers

\* Responses of the generation service to a fix request that parse as JSON:
\* the file list is empty, echoes the current content, or changes content;
\* "commit_message" is absent or one of ServiceFixMessages.
FixResponses ==
    [files : {"none", "same", "changed"}, has_msg : {FALSE}, msg : {<<>>}]
    \cup [files : {"none", "same", "changed"}, has_msg : {TRUE},
          msg : ServiceFixMessages]

\* files is what the file list of the parsed response held: "unknown" until
\* a response parsed.
IdleFixer == [pc |-> "idle", local |-> <<>>, attempt |-> 0,
              files |-> "unknown", trace |-> <<>>]

\* What a finished fixer run did: the attempt count it computed, its exit
\* status, the calls it made, in order, and the comments it got posted.
\* uncaught says that the run ended in an exception no handler caught.
Finished(n, status, calls, comments) ==
    [ran |-> TRUE, attempt |-> n, exit |-> status, trace |-> calls,
     posted |-> comments, files |-> "unknown", uncaught |-> FALSE]

NoRun == [ran |-> FALSE, attempt |-> 0, exit |-> 0, trace |-> <<>>,
          posted |-> {}, files |-> "unknown", uncaught |-> FALSE]

VARIABLES
    branchLog,        \* commit history of the pull-request branch (remote)
    headBranchExists, \* the head branch ref exists on the remote
    mergedHead,       \* 0 while the pull request is open, else the length
                      \* of the branch history that was merged
    prAuthor,         \* login of the pull request's author
    reviews,          \* reviews on the pull request, in platform order
    inlineComments,   \* inline review comments on the pull request
    prComments,       \* kinds of issue comments present on the pull request
    pendingFix,       \* changes-requested triggers not yet picked up
    pendingReview,    \* review triggers not yet picked up: the head each
                      \* trigger was raised for
    faulted,          \* some external call (platform, service, git) failed
    asScript,         \* code_reviewer.py runs as the script entry point
    fx,               \* the fixer runs in progress: fx[f] is run slot f
    lastFix,          \* the fixer run that finished last
    rv,               \* the reviewer run in progress
    lastReview,       \* the reviewer run that finished last
    pendingGen,       \* issue-assigned triggers not yet picked up
    remoteBranches,   \* feature branches of the issue on the remote
    openPRs,          \* open pull requests of the issue, by head branch
    issueComments,    \* kinds of comments present on the issue
    gn,               \* the generator run in progress
    lastGen,          \* the generator run that finished last
    missing,          \* the required context value absent from the
                      \* environment of the runs, "none" when all are set
    calc              \* the last application of one of the pure helpers:
                      \* its name, its input and what it returned

vars == <<branchLog, headBranchExists, mergedHead, prAuthor, reviews,
          inlineComments, prComments, pendingFix, pendingReview, faulted,
          asScript, fx, lastFix, rv, lastReview, pendingGen, remoteBranches,
          openPRs, issueComments, gn, lastGen, missing, calc>>

genVars == <<pendingGen, remoteBranches, openPRs, issueComments, gn, lastGen>>

prVars == <<branchLog, headBranchExists, mergedHead, prAuthor, reviews,
            inlineComments, prComments, pendingFix, pendingReview, asScript,
            fx, lastFix, rv, lastReview>>

\* The context values each script reads with os.environ[...] while it is
\* imported (its CONFIG block), and the one read later, inside a function.
FixerConfig == {"ANTHROPIC_API_KEY", "BACKEND_AGENT_TOKEN", "REPO_FULL_NAME",
                "PR_NUMBER", "PR_BRANCH"}
ReviewerConfig == {"ANTHROPIC_API_KEY", "REVIEWER_BOT_TOKEN", "REPO_FULL_NAME",
                   "PR_NUMBER", "BASE_SHA", "HEAD_SHA"}
GeneratorConfig == {"ANTHROPIC_API_KEY", "BACKEND_AGENT_TOKEN",
                    "REPO_FULL_NAME", "ISSUE_NUMBER", "ISSUE_TITLE"}

\* What no fixer step changes, and what no reviewer step changes.
FixerFrame ==
    UNCHANGED <<headBranchExists, mergedHead, prAuthor, reviews,
                inlineComments, asScript, rv, lastReview, genVars, missing, calc>>

ReviewerFrame ==
    UNCHANGED <<branchLog, prAuthor, inlineComments, asScript, fx, lastFix,
                genVars, missing, calc>>

\* --------------------------------------------------- Self-Healing Fixer
Running(f) == fx[f].pc # "idle"

\* Findings: the body of every CHANGES_REQUESTED review, then every inline
\* comment, both in platform order.
\* A reading that takes the reviews of the reviewer identity alone and the
\* inline comments made with them.
get_pr_details_of_reviewer(revs, inl) ==
    LET mine == SelectSeq(revs, LAMBDA r : /\ r.state = "CHANGES_REQUESTED"
                                          /\ r.user = "reviewer-bot")
    IN [i \in DOMAIN mine |->
           [type |-> "review_body", reviewer |-> mine[i].user,
            body |-> mine[i].body]]
       \o [i \in DOMAIN SelectSeq(inl, LAMBDA c :
                  \E j \in DOMAIN mine : mine[j].id = c.review) |->
             LET c == SelectSeq(inl, LAMBDA d :
                          \E j \in DOMAIN mine : mine[j].id = d.review)[i]
             IN [type |-> "inline_comment", file |-> c.path,
                 line |-> c.line, body |-> c.body]]

get_pr_details(revs, inl) ==
    LET RECURSIVE bodies(_)
        bodies(s) ==
            IF s = <<>> THEN <<>>
            ELSE (IF Head(s).state = "CHANGES_REQUESTED"
                  THEN <<[type |-> "review_body", reviewer |-> Head(s).user,
                          body |-> Head(s).body]>>
                  ELSE <<>>) \o bodies(Tail(s))
        RECURSIVE comments(_)
        comments(s) ==
            IF s = <<>> THEN <<>>
            ELSE <<[type |-> "inline_comment", file |-> Head(s).path,
                    line |-> Head(s).line, body |-> Head(s).body]>>
                 \o comments(Tail(s))
    IN bodies(revs) \o comments(inl)

\* call_claude(): the findings as they are written into the fix request,
\* one entry per finding, joined in order: the title made from the type,
\* the place for an inline comment, and the body.
findings_text(findings) ==
    [i \in DOMAIN findings |->
        LET f == findings[i] IN
        [title |-> IF f.type = "inline_comment" THEN "Inline Comment"
                   ELSE "Review Body",
         at |-> IF f.type = "inline_comment" THEN <<f.file, f.line>>
                ELSE <<>>,
         body |-> f.body]]

\* post_error_comment: one create_issue_comment call; a failure of the call is
\* swallowed.  delivered says whether the platform accepted the comment.
post_error_comment(kind, delivered) ==
    IF delivered THEN prComments \cup {kind} ELSE prComments

\* A guard that compares with > where main() compares with >=.
RetryCapReachedOffByOne(attempt_count) == attempt_count > MAX_FIX_ATTEMPTS

\* The retry guard of main().
RetryCapReached(attempt_count) == attempt_count >= MAX_FIX_ATTEMPTS

\* A reporting helper without its try/except: a refused call raises.
post_error_comment_unguarded(delivered) == ~delivered

\* Whether an exception leaves post_error_comment(): its body is one
\* try/except Exception.
post_error_comment_raises(delivered) == FALSE

\* Except clauses that end the run with status 0.
except_clause_exit_zero == [calls |-> <<"post_error_comment">>, exit |-> 0]

\* Each except clause of main(): post_error_comment(error), sys.exit(1).
except_clause == [calls |-> <<"post_error_comment">>, exit |-> 1]

\* The run raises in its try block.  events are the calls the run made up
\* to and including the one that raised; fault says whether the exception
\* came from a failing external call; files is what the response held.
FixerFailWith(f, files, events, fault, delivered) ==
    LET raises == post_error_comment_raises(delivered) IN
    /\ prComments' = post_error_comment("error", delivered)
    /\ faulted' = (faulted \/ fault \/ ~delivered)
    /\ fx' = [fx EXCEPT ![f] = IdleFixer]
    /\ lastFix' = [Finished(fx[f].attempt,
                            IF raises THEN 1 ELSE except_clause.exit,
                            fx[f].trace \o events \o except_clause.calls,
                            IF delivered THEN {"error"} ELSE {})
                     EXCEPT !.files = files, !.uncaught = raises]

FixerFail(f, events, fault, delivered) ==
    FixerFailWith(f, fx[f].files, events, fault, delivered)

\* The run returns from main().
FixerReturnWith(f, files, events, comments) ==
    /\ fx' = [fx EXCEPT ![f] = IdleFixer]
    /\ lastFix' = [Finished(fx[f].attempt, 0, fx[f].trace \o events,
                            comments) EXCEPT !.files = files]

FixerReturn(f, events, comments) ==
    FixerReturnWith(f, fx[f].files, events, comments)

\* A context value read by the CONFIG block is absent: the import of the
\* script ends in a KeyError, before main() and its handler.
FixerConfigError ==
    /\ pendingFix > 0
    /\ headBranchExists
    /\ missing \in FixerConfig
    /\ pendingFix' = pendingFix - 1
    /\ lastFix' = [Finished(0, 1, <<"KeyError">>, {})
                     EXCEPT !.uncaught = TRUE]
    /\ UNCHANGED <<branchLog, pendingReview, prComments, faulted, fx>>
    /\ FixerFrame

\* The runner has checked out the pull-request branch; main() prints the
\* banner, counts the prior fix attempts and applies the retry guard: at
\* MAX_FIX_ATTEMPTS it posts the escalation comment and exits 0.
FixerStart(f) ==
    /\ pendingFix > 0
    /\ headBranchExists
    /\ missing \notin FixerConfig
    /\ ~Running(f)
    /\ \A g \in Fixers : g < f => Running(g)
    /\ pendingFix' = pendingFix - 1
    /\ LET attempt_count == check_fix_attempt_count(branchLog)
       IN IF RetryCapReached(attempt_count)
          THEN \E delivered \in BOOLEAN :
                 /\ prComments' = post_error_comment("escalation", delivered)
                 /\ faulted' = (faulted \/ ~delivered)
                 /\ lastFix' =
                      [Finished(attempt_count,
                                IF post_error_comment_raises(delivered)
                                THEN 1 ELSE 0,
                                <<"post_error_comment">>,
                                IF delivered THEN {"escalation"} ELSE {})
                         EXCEPT !.uncaught =
                                  post_error_comment_raises(delivered)]
                 /\ UNCHANGED fx
          ELSE /\ fx' = [fx EXCEPT ![f] =
                           [IdleFixer EXCEPT !.pc = "get_pr_details",
                                             !.local = branchLog,
                                             !.attempt = attempt_count]]
               /\ UNCHANGED <<prComments, faulted, lastFix>>
    /\ UNCHANGED <<branchLog, pendingReview>>
    /\ FixerFrame

\* A test that never takes the no-findings exit.
NoFindingsNever(findings) == FALSE

\* `if not findings`
NoFindings(findings) == findings = <<>>

\* Step 1 and 2: read the findings; none -> return (exit 0); otherwise read
\* the current files.
FixerReadFindings(f) ==
    /\ fx[f].pc = "get_pr_details"
    /\ \/ /\ missing = "GITHUB_TOKEN"
          /\ \E delivered \in BOOLEAN :
               FixerFail(f, <<"KeyError">>, FALSE, delivered)
       \/ /\ missing # "GITHUB_TOKEN"
          /\ \E delivered \in BOOLEAN :
               FixerFail(f, <<"get_pr_details_failed">>, TRUE, delivered)
       \/ /\ missing # "GITHUB_TOKEN"
          /\ NoFindings(get_pr_details(reviews, inlineComments))
          /\ FixerReturn(f, <<"get_pr_details">>, {})
          /\ UNCHANGED <<prComments, faulted>>
       \/ /\ missing # "GITHUB_TOKEN"
          /\ ~NoFindings(get_pr_details(reviews, inlineComments))
          /\ \E delivered \in BOOLEAN :
               FixerFail(f, <<"get_pr_details", "get_current_files_failed">>,
                         TRUE, delivered)
       \/ /\ missing # "GITHUB_TOKEN"
          /\ ~NoFindings(get_pr_details(reviews, inlineComments))
          /\ fx' = [fx EXCEPT ![f].pc = "call_claude",
                              ![f].trace = @ \o <<"get_pr_details",
                                                  "get_current_files">>]
          /\ UNCHANGED <<prComments, faulted, lastFix>>
    /\ UNCHANGED <<branchLog, pendingFix, pendingReview>>
    /\ FixerFrame

\* The message of the fix commit: result.get("commit_message", default).
FixCommitMessage(r) == IF r.has_msg THEN r.msg ELSE DefaultFixMessage

\* `if not files`
NoFilesToFix(files) == files = "none"

\* A test that takes every written tree for a changed one.
NoChangesAfterFixNever(files) == FALSE

\* `if not status.stdout.strip()`: the written files leave the tree clean.
NoChangesAfterFix(files) == files = "same"

\* Step 3 and the local part of step 4: one generation call (it fails, its
\* text is no JSON, or it parses to a fix object), then apply_fixes up to and
\* including git commit; "commit_message" is read only there.
FixerGenerate(f) ==
    /\ fx[f].pc = "call_claude"
    /\ \/ \E delivered \in BOOLEAN :
            FixerFail(f, <<"call_claude_failed">>, TRUE, delivered)
       \/ \E files \in {r.files : r \in FixResponses} :
            \/ /\ NoFilesToFix(files)
               /\ FixerReturnWith(f, files, <<"call_claude">>, {})
               /\ UNCHANGED <<prComments, faulted>>
            \/ /\ ~NoFilesToFix(files)
               /\ \E delivered \in BOOLEAN :
                    FixerFailWith(f, files,
                                  <<"call_claude", "write_text",
                                    "git_add_failed">>, TRUE, delivered)
            \/ /\ ~NoFilesToFix(files)
               /\ NoChangesAfterFix(files)
               /\ FixerReturnWith(f, files,
                                  <<"call_claude", "write_text", "git_add",
                                    "git_status">>, {})
               /\ UNCHANGED <<prComments, faulted>>
            \/ /\ ~NoFilesToFix(files)
               /\ ~NoChangesAfterFix(files)
               /\ \E delivered \in BOOLEAN :
                    FixerFailWith(f, files,
                                  <<"call_claude", "write_text", "git_add",
                                    "git_status", "git_commit_failed">>,
                                  TRUE, delivered)
            \/ /\ ~NoFilesToFix(files)
               /\ ~NoChangesAfterFix(files)
               /\ \E r \in FixResponses :
                    /\ r.files = files
                    /\ fx' = [fx EXCEPT
                                ![f].pc = "git_push",
                                ![f].files = files,
                                ![f].local =
                                    Append(@, Commit(FixCommitMessage(r),
                                                     "fixer")),
                                ![f].trace = @ \o <<"call_claude",
                                                    "write_text", "git_add",
                                                    "git_status",
                                                    "git_commit">>]
               /\ UNCHANGED <<prComments, faulted, lastFix>>
    /\ UNCHANGED <<branchLog, pendingFix, pendingReview>>
    /\ FixerFrame

\* git push <url> PR_BRANCH: accepted only as a fast-forward of the remote
\* branch; a rejected or failed push raises CalledProcessError.  An accepted
\* push is a new head of the pull request, which the platform announces.
FixerPush(f) ==
    /\ fx[f].pc = "git_push"
    /\ \/ /\ IsPrefix(branchLog, fx[f].local)
          /\ branchLog' = fx[f].local
          /\ pendingReview' = pendingReview \cup {Len(fx[f].local)}
          /\ fx' = [fx EXCEPT ![f].pc = "post_fix_comment",
                              ![f].local = <<>>,
                              ![f].trace = Append(@, "git_push")]
          /\ UNCHANGED <<prComments, faulted, lastFix>>
       \/ /\ \E delivered \in BOOLEAN :
               FixerFail(f, <<"git_push_failed">>,
                         IsPrefix(branchLog, fx[f].local), delivered)
          /\ UNCHANGED <<branchLog, pendingReview>>
    /\ UNCHANGED pendingFix
    /\ FixerFrame

\* Step 5: the informational comment after a pushed fix.
FixerPostFixComment(f) ==
    /\ fx[f].pc = "post_fix_comment"
    /\ \/ /\ prComments' = prComments \cup {"fix"}
          /\ FixerReturn(f, <<"post_fix_comment">>, {"fix"})
          /\ UNCHANGED faulted
       \/ \E delivered \in BOOLEAN :
            FixerFail(f, <<"post_fix_comment_failed">>, TRUE, delivered)
    /\ UNCHANGED <<branchLog, pendingFix, pendingReview>>
    /\ FixerFrame

FixerStep(f) ==
    \/ FixerStart(f)
    \/ FixerReadFindings(f)
    \/ FixerGenerate(f)
    \/ FixerPush(f)
    \/ FixerPostFixComment(f)

\* -------------------------------------------------------- Diff Reviewer
ReviewerBot == "reviewer-bot"

Review(i, u, s) == [id |-> i, user |-> u, state |-> s, body |-> "findings"]

\* An inline comment made with review i.
InlineComment(i) ==
    [path |-> "app.py", line |-> 1, body |-> "fix this", review |-> i]

\* attempted and failed are the reviews the run asked the platform to
\* dismiss and those for which the call failed.
IdleReviewer ==
    [pc |-> "idle", head |-> 0, diff |-> "none", verdict |-> "none",
     critical |-> 0, event |-> "none", formal |-> FALSE, reviewId |-> 0,
     attempted |-> {}, failed |-> {}, trace |-> <<>>]

\* What a finished reviewer run did.  merge and deleted are "none" when the
\* call was not made, else "ok" or "failed"; merge is "unbound" when the name
\* auto_merge could not be resolved.  uncaught says that the run ended in an
\* exception no handler caught.
Reviewed(r, status, calls, m, d) ==
    [ran |-> TRUE, head |-> r.head, diff |-> r.diff, verdict |-> r.verdict,
     critical |-> r.critical, event |-> r.event, formal |-> r.formal,
     reviewId |-> r.reviewId, attempted |-> r.attempted, failed |-> r.failed,
     exit |-> status, trace |-> r.trace \o calls,
     merge |-> m, deleted |-> d, uncaught |-> FALSE]

NoReview ==
    [ran |-> FALSE, head |-> 0, diff |-> "none", verdict |-> "none",
     critical |-> 0, event |-> "none", formal |-> FALSE, reviewId |-> 0,
     attempted |-> {}, failed |-> {},
     exit |-> 0, trace |-> <<>>, merge |-> "none", deleted |-> "none",
     uncaught |-> FALSE]

\* Verdicts the review service can put in "verdict".
Verdicts == {"APPROVE", "REQUEST_CHANGES", "COMMENT"}

\* An exception no handler of main() catches: traceback, exit status 1.
ReviewerCrash(calls, fault) ==
    /\ lastReview' = [Reviewed(rv, 1, calls, "none", "none")
                        EXCEPT !.uncaught = TRUE]
    /\ rv' = IdleReviewer
    /\ faulted' = (faulted \/ fault)

\* A context value read by the CONFIG block, or the default token read by
\* the first statement of main(), is absent: KeyError, traceback.
ReviewerConfigError ==
    /\ rv.pc = "idle"
    /\ missing \in ReviewerConfig \cup {"GITHUB_TOKEN"}
    /\ \E h \in pendingReview :
         /\ pendingReview' = pendingReview \ {h}
         /\ lastReview' = [Reviewed([IdleReviewer EXCEPT !.head = h], 1,
                                    <<"KeyError">>, "none", "none")
                             EXCEPT !.uncaught = TRUE]
    /\ UNCHANGED <<headBranchExists, mergedHead, reviews, prComments,
                   pendingFix, rv, faulted>>
    /\ ReviewerFrame

\* main(): the run is started for a pull-request event and reads the pull
\* request with the default token.
ReviewerStart ==
    /\ rv.pc = "idle"
    /\ missing \notin ReviewerConfig \cup {"GITHUB_TOKEN"}
    /\ \E h \in pendingReview :
         /\ pendingReview' = pendingReview \ {h}
         /\ \/ /\ rv' = [IdleReviewer EXCEPT !.pc = "dismiss", !.head = h,
                                             !.trace = <<"get_pull">>]
               /\ UNCHANGED <<lastReview, faulted>>
            \/ /\ lastReview' =
                    [Reviewed([IdleReviewer EXCEPT !.head = h], 1,
                              <<"get_pull_failed">>, "none", "none")
                       EXCEPT !.uncaught = TRUE]
               /\ faulted' = TRUE
               /\ UNCHANGED rv
    /\ UNCHANGED <<headBranchExists, mergedHead, reviews, prComments,
                   pendingFix>>
    /\ ReviewerFrame

\* A selection that leaves the reviewing identity out of account.
StaleReviewsOfAnyIdentity(revs) ==
    {i \in DOMAIN revs : revs[i].state = "CHANGES_REQUESTED"}

\* The reviews dismiss_previous_reviews() asks the platform to dismiss.
StaleReviews(revs) ==
    {i \in DOMAIN revs : revs[i].user = ReviewerBot
                         /\ revs[i].state = "CHANGES_REQUESTED"}

\* A test that never takes the empty-diff exit.
diff_is_blank_never(d) == FALSE

\* `not diff.strip()`: the filtered diff is empty or whitespace only.
diff_is_blank(d) == d \in {"empty", "blank"}

\* dismiss_previous_reviews(): each stale review is dismissed unless the call
\* for it fails (swallowed); then get_diff() and filter_diff().
ReviewerDismiss ==
    /\ rv.pc = "dismiss"
    /\ \/ /\ ReviewerCrash(<<"get_reviews_failed">>, TRUE)
          /\ UNCHANGED reviews
       \/ \E failed \in SUBSET StaleReviews(reviews) :
            /\ reviews' = [i \in DOMAIN reviews |->
                             IF i \in StaleReviews(reviews) \ failed
                             THEN [reviews[i] EXCEPT !.state = "DISMISSED"]
                             ELSE reviews[i]]
            /\ \/ /\ lastReview' =
                       [Reviewed([rv EXCEPT
                                    !.attempted = StaleReviews(reviews),
                                    !.failed = failed], 1,
                                 <<"dismiss", "get_diff_failed">>,
                                 "none", "none") EXCEPT !.uncaught = TRUE]
                  /\ rv' = IdleReviewer
                  /\ faulted' = TRUE
               \/ \E d \in {"empty", "blank", "nonempty"} :
                    /\ rv' = [rv EXCEPT
                                !.pc = IF diff_is_blank(d) THEN "empty_diff"
                                       ELSE "call_claude",
                                !.diff = d,
                                !.attempted = StaleReviews(reviews),
                                !.failed = failed,
                                !.trace = @ \o <<"dismiss", "get_diff">>]
                    /\ faulted' = (faulted \/ failed # {})
                    /\ UNCHANGED lastReview
    /\ UNCHANGED <<headBranchExists, mergedHead, prComments, pendingFix,
                   pendingReview>>
    /\ ReviewerFrame

\* The filtered diff is empty: post the approval comment and return.
ReviewerEmptyDiff ==
    /\ rv.pc = "empty_diff"
    /\ \/ /\ prComments' = prComments \cup {"approved_empty"}
          /\ lastReview' = Reviewed(rv, 0, <<"create_issue_comment">>,
                                    "none", "none")
          /\ rv' = IdleReviewer
          /\ UNCHANGED faulted
       \/ /\ ReviewerCrash(<<"create_issue_comment_failed">>, TRUE)
          /\ UNCHANGED prComments
    /\ UNCHANGED <<headBranchExists, mergedHead, reviews, pendingFix,
                   pendingReview>>
    /\ ReviewerFrame

\* post_review(): the event posted for a verdict.
github_event(verdict, critical) ==
    IF verdict = "APPROVE" THEN "APPROVE" ELSE "REQUEST_CHANGES"

\* A test that never takes the fallback.
IsSelfReviewNever(pr_author) == FALSE

\* post_review(): `pr_author == bot_user`.
IsSelfReview(pr_author) == pr_author = ReviewerBot

\* call_claude(), format_pr_comment() and post_review(): a formal review, or
\* a plain comment when the author is the reviewer bot.  A formal
\* REQUEST_CHANGES review is the changes-requested trigger of the fixer.
ReviewerReview ==
    /\ rv.pc = "call_claude"
    /\ \/ /\ ReviewerCrash(<<"call_claude_failed">>, TRUE)
          /\ UNCHANGED <<reviews, prComments, pendingFix>>
       \/ \E v \in Verdicts, c \in 0..MaxCritical :
            LET ev == github_event(v, c)
                got == [rv EXCEPT !.verdict = v, !.critical = c]
            IN \/ /\ lastReview' =
                       [Reviewed(got, 1,
                                 <<"call_claude", "post_review_failed">>,
                                 "none", "none") EXCEPT !.uncaught = TRUE]
                  /\ rv' = IdleReviewer
                  /\ faulted' = TRUE
                  /\ UNCHANGED <<reviews, prComments, pendingFix>>
               \/ /\ IsSelfReview(prAuthor)
                  /\ prComments' = prComments \cup {"review_fallback"}
                  /\ rv' = [got EXCEPT !.pc = "verdict", !.event = ev,
                                       !.trace = @ \o <<"call_claude",
                                                  "create_issue_comment">>]
                  /\ UNCHANGED <<reviews, pendingFix, lastReview, faulted>>
               \/ /\ ~IsSelfReview(prAuthor)
                  /\ reviews' = Append(reviews,
                        Review(Len(reviews) + 1, ReviewerBot,
                               IF ev = "APPROVE" THEN "APPROVED"
                               ELSE "CHANGES_REQUESTED"))
                  /\ pendingFix' = IF ev = "APPROVE" THEN pendingFix
                                   ELSE pendingFix + 1
                  /\ rv' = [got EXCEPT !.pc = "verdict", !.event = ev,
                                       !.formal = TRUE,
                                       !.reviewId = Len(reviews) + 1,
                                       !.trace = @ \o <<"call_claude",
                                                        "create_review">>]
                  /\ UNCHANGED <<prComments, lastReview, faulted>>
    /\ UNCHANGED <<headBranchExists, mergedHead, pendingReview>>
    /\ ReviewerFrame

\* Whether the name auto_merge is bound when main() calls it: the def
\* statement follows the `if __name__ == "__main__": main()` block.
auto_merge_bound(script) == ~script

\* An auto_merge without the outer try: a failed merge raises out of it and
\* the branch deletion is not skipped.
auto_merge_uncaught(merge_ok, delete_ok) ==
    [merge |-> IF merge_ok THEN "ok" ELSE "failed",
     deleted |-> IF delete_ok THEN "ok" ELSE "failed",
     raises |-> ~merge_ok]

\* auto_merge(): merge, then delete the head branch; both failures are caught.
\* The result says what was called and whether an exception leaves auto_merge.
auto_merge(merge_ok, delete_ok) ==
    [merge |-> IF merge_ok THEN "ok" ELSE "failed",
     deleted |-> IF ~merge_ok THEN "none"
                 ELSE IF delete_ok THEN "ok" ELSE "failed",
     raises |-> FALSE]

\* The end of main(): exit 1 on REQUEST_CHANGES, otherwise auto_merge(pr) and
\* exit 0.
ReviewerVerdict ==
    /\ rv.pc = "verdict"
    /\ \/ /\ rv.verdict = "REQUEST_CHANGES"
          /\ lastReview' = Reviewed(rv, 1, <<>>, "none", "none")
          /\ UNCHANGED <<mergedHead, headBranchExists, faulted>>
       \/ /\ rv.verdict # "REQUEST_CHANGES"
          /\ ~auto_merge_bound(asScript)
          /\ lastReview' = [Reviewed(rv, 1, <<"NameError">>, "unbound",
                                     "none") EXCEPT !.uncaught = TRUE]
          /\ UNCHANGED <<mergedHead, headBranchExists, faulted>>
       \/ /\ rv.verdict # "REQUEST_CHANGES"
          /\ auto_merge_bound(asScript)
          /\ \E merge_ok \in {mergedHead = 0 /\ headBranchExists, FALSE},
                delete_ok \in BOOLEAN :
               LET out == auto_merge(merge_ok, delete_ok) IN
               /\ mergedHead' = IF out.merge = "ok" THEN Len(branchLog)
                                ELSE mergedHead
               /\ headBranchExists' = IF out.deleted = "ok" THEN FALSE
                                      ELSE headBranchExists
               /\ faulted' = (faulted \/ out.merge = "failed"
                                      \/ out.deleted = "failed")
               /\ lastReview' =
                    Reviewed(rv, IF out.raises THEN 1 ELSE 0,
                             <<"merge">>
                             \o (IF out.deleted = "none" THEN <<>>
                                 ELSE <<"delete_ref">>),
                             out.merge, out.deleted)
    /\ rv' = IdleReviewer
    /\ UNCHANGED <<reviews, prComments, pendingFix, pendingReview>>
    /\ ReviewerFrame

ReviewerStep ==
    \/ ReviewerStart
    \/ ReviewerDismiss
    \/ ReviewerEmptyDiff
    \/ ReviewerReview
    \/ ReviewerVerdict

\* ----------------------------------------------------- Change Generator
SlugCap == 30

\* How many characters follow the run of letters of a sanitizer input.
SlugTail == 3

\* How many blocks a small diff has at most, and how far the length of a
\* large filtered diff is from the ceiling at most.
DiffBlocks == 2
DiffSlack == 2

\* How many reviews and inline comments a pull request has at most when
\* the findings are read on their own.
MaxFindingReviews == 2
MaxInlineComments == 2

\* How many files the working tree holds at most when the file section is
\* assembled on its own.
MaxBudgetFiles == 3

\* How many commits a history has at most when the attempts are counted
\* on their own.
MaxCountCommits == 3

UpperCase == <<"A", "B", "C", "D", "E", "F", "G", "H", "I", "J", "K", "L", "M",
               "N", "O", "P", "Q", "R", "S", "T", "U", "V", "W", "X", "Y", "Z">>
LowerCase == <<"a", "b", "c", "d", "e", "f", "g", "h", "i", "j", "k", "l", "m",
               "n", "o", "p", "q", "r", "s", "t", "u", "v", "w", "x", "y", "z">>
Digits == {"0", "1", "2", "3", "4", "5", "6", "7", "8", "9"}

\* text.lower(), one character.
ToLower(c) ==
    IF \E i \in DOMAIN UpperCase : UpperCase[i] = c
    THEN LowerCase[CHOOSE i \in DOMAIN UpperCase : UpperCase[i] = c]
    ELSE c

SlugChars == {LowerCase[i] : i \in DOMAIN LowerCase} \cup Digits \cup {"-"}

RECURSIVE CollapseHyphens(_)
CollapseHyphens(t) ==
    IF Len(t) <= 1 THEN t
    ELSE IF t[1] = "-" /\ t[2] = "-" THEN CollapseHyphens(Tail(t))
    ELSE <<t[1]>> \o CollapseHyphens(Tail(t))

RECURSIVE StripLeft(_)
StripLeft(t) ==
    IF t # <<>> /\ Head(t) = "-" THEN StripLeft(Tail(t)) ELSE t

RECURSIVE StripRight(_)
StripRight(t) ==
    IF t # <<>> /\ t[Len(t)] = "-"
    THEN StripRight(SubSeq(t, 1, Len(t) - 1)) ELSE t

\* A sanitizer that returns the stripped text whole.
sanitize_branch_name_uncut(text) ==
    StripRight(StripLeft(CollapseHyphens(
        [i \in DOMAIN text |->
            IF ToLower(text[i]) \in SlugChars THEN ToLower(text[i])
            ELSE "-"])))

\* sanitize_branch_name: lower, replace what is not [a-z0-9-] by '-',
\* collapse runs of '-', strip '-' at both ends, then cut to 30 characters.
sanitize_branch_name(text) ==
    LET lowered == [i \in DOMAIN text |-> ToLower(text[i])]
        replaced == [i \in DOMAIN lowered |->
                        IF lowered[i] \in SlugChars THEN lowered[i] ELSE "-"]
        stripped == StripRight(StripLeft(CollapseHyphens(replaced)))
    IN SubSeq(stripped, 1, IF Len(stripped) < SlugCap THEN Len(stripped)
                           ELSE SlugCap)

\* Values the generation service can put in "branch_suffix".
ServiceBranchSuffixes ==
    { <<"a", "d", "d", "-", "l", "o", "g">>,
      <<"A", "d", "d", " ", "L", "o", "g", "!">>,
      <<"l", "o", "g", "g", "i", "n", "g">> }

\* The suffix used when the key is absent: f"issue-{ISSUE_NUMBER}".
DefaultBranchSuffix == <<"i", "s", "s", "u", "e", "-", "4", "2">>

\* f"feature/backend/{ISSUE_NUMBER}-{branch_suffix}"
BranchName(suffix) == <<"feature/backend/42-">> \o sanitize_branch_name(suffix)

\* Responses of the generation service to a generate request that parse as
\* JSON.
GenResponses ==
    [files : {"none", "same", "changed"},
     suffix : ServiceBranchSuffixes \cup {DefaultBranchSuffix}]

\* files is what the parsed response held: "unknown" until a response parsed.
\* body is the body the run handed to create_pull.
IdleGenerator == [pc |-> "idle", branch |-> <<>>, pushed |-> FALSE,
                  files |-> "unknown", trace |-> <<>>, body |-> <<>>]

\* What a finished generator run did.  uncaught says that the run ended in an
\* exception no handler caught (traceback, exit status 1).
Generated(g, status, calls) ==
    [ran |-> TRUE, branch |-> g.branch, files |-> g.files, exit |-> status,
     trace |-> g.trace \o calls, posted |-> {}, uncaught |-> FALSE,
     body |-> g.body]

NoGen == [ran |-> FALSE, branch |-> <<>>, files |-> "unknown", exit |-> 0,
          trace |-> <<>>, posted |-> {}, uncaught |-> FALSE, body |-> <<>>]

\* The calls of a trace, as a set.
Calls(trace) == {trace[i] : i \in DOMAIN trace}

\* How often a call occurs in a trace.
Count(trace, call) == Cardinality({i \in DOMAIN trace : trace[i] = call})

GenFrame == UNCHANGED <<prVars, missing, calc>>

\* Whether an exception leaves the generator's post_error_comment(): its
\* body is one try/except Exception.
GenErrorCommentRaises(delivered) == FALSE

\* The except clauses of main(): post_error_comment(error) on the issue,
\* sys.exit(1).
GenFail(g, calls, fault, delivered) ==
    /\ issueComments' = IF delivered THEN issueComments \cup {"error"}
                        ELSE issueComments
    /\ faulted' = (faulted \/ fault \/ ~delivered)
    /\ lastGen' = [Generated(g, 1, calls \o <<"post_error_comment">>)
                     EXCEPT !.posted = IF delivered THEN {"error"} ELSE {},
                            !.uncaught = GenErrorCommentRaises(delivered)]
    /\ gn' = IdleGenerator

\* A context value read by the CONFIG block is absent: the import of the
\* script ends in a KeyError, before main() and its handlers.
GenConfigError ==
    /\ gn.pc = "idle"
    /\ pendingGen > 0
    /\ missing \in GeneratorConfig
    /\ pendingGen' = pendingGen - 1
    /\ lastGen' = [Generated(IdleGenerator, 1, <<"KeyError">>)
                     EXCEPT !.uncaught = TRUE]
    /\ UNCHANGED <<remoteBranches, openPRs, issueComments, gn, faulted>>
    /\ GenFrame

\* Step 1 and 2 of main(): call_claude(), then create_branch_and_files():
\* sync develop, create the branch in the fresh checkout, write the files,
\* and when something changed commit and push.  A push to a branch name that
\* already exists on the remote is not a fast-forward and is rejected.
GenMaterialize ==
    /\ gn.pc = "idle"
    /\ pendingGen > 0
    /\ missing \notin GeneratorConfig
    /\ pendingGen' = pendingGen - 1
    /\ \/ /\ \E delivered \in BOOLEAN :
               GenFail(IdleGenerator, <<"call_claude">>, TRUE, delivered)
          /\ UNCHANGED remoteBranches
       \/ \E r \in GenResponses :
            LET branch_name == BranchName(r.suffix)
                g == [IdleGenerator EXCEPT !.branch = branch_name,
                                           !.files = r.files]
                synced == <<"call_claude", "git_checkout_develop",
                            "git_pull", "git_checkout_b", "write_text",
                            "git_add", "git_status">>
            IN \/ /\ \E delivered \in BOOLEAN :
                       GenFail(g, <<"call_claude", "git_checkout_develop",
                                    "git_pull_failed">>, TRUE, delivered)
                  /\ UNCHANGED remoteBranches
               \/ /\ r.files # "changed"
                  /\ gn' = [g EXCEPT !.pc = "open_pr", !.trace = synced]
                  /\ UNCHANGED <<remoteBranches, issueComments, faulted,
                                 lastGen>>
               \/ /\ r.files = "changed"
                  /\ branch_name \notin remoteBranches
                  /\ remoteBranches' = remoteBranches \cup {branch_name}
                  /\ gn' = [g EXCEPT !.pc = "open_pr", !.pushed = TRUE,
                                     !.trace = synced \o <<"git_commit",
                                                           "git_push">>]
                  /\ UNCHANGED <<issueComments, faulted, lastGen>>
               \/ /\ r.files = "changed"
                  /\ \E delivered \in BOOLEAN :
                       GenFail(g, synced \o <<"git_commit",
                                              "git_push_failed">>,
                               branch_name \notin remoteBranches, delivered)
                  /\ UNCHANGED remoteBranches
    /\ UNCHANGED openPRs
    /\ GenFrame

\* s occurs in t as a run of consecutive characters: Python's `s in t`.
Contains(s, t) ==
    \E i \in 1..(Len(t) - Len(s) + 1) : SubSeq(t, i, i + Len(s) - 1) = s

\* f"#{ISSUE_NUMBER}"
IssueRef == <<"#", "4", "2">>

\* The body used when the key is absent: f"Resolves #{ISSUE_NUMBER}".
DefaultPrBody == <<"R", "e", "s", "o", "l", "v", "e", "s", " ">> \o IssueRef

\* Values the generation service can put in "pr_body": without a
\* reference, with the reference, with the reference to another issue whose
\* number starts alike, and with a cut-off reference.
ServicePrBodies ==
    { <<"F", "i", "x">>,
      <<"F", "i", "x", " ", "#", "4", "2">>,
      <<"#", "4", "2", "0">>,
      <<"#", "4">> }

\* A body handed on as the service wrote it.
EnsureBackReferenceNever(pr_body) == pr_body

\* open_pr(): the reference is appended to a body that does not hold it.
EnsureBackReference(pr_body) ==
    IF ~Contains(IssueRef, pr_body)
    THEN pr_body \o <<"\n", "\n", "C", "l", "o", "s", "e", "s", " ">>
                 \o IssueRef
    ELSE pr_body

\* Step 3 of main(): open_pr().  The platform refuses a pull request whose
\* head branch is not on the remote or already has an open pull request.
GenOpenPR ==
    /\ gn.pc = "open_pr"
    /\ \/ /\ gn.branch \in remoteBranches
          /\ gn.branch \notin openPRs
          /\ openPRs' = openPRs \cup {gn.branch}
          /\ \E pr_body \in ServicePrBodies \cup {DefaultPrBody} :
               LET g == [gn EXCEPT !.body = EnsureBackReference(pr_body)] IN
               \/ /\ issueComments' = issueComments \cup {"pr_link"}
                  /\ lastGen' = [Generated(g, 0, <<"create_pull",
                                                   "create_comment">>)
                                   EXCEPT !.posted = {"pr_link"}]
                  /\ gn' = IdleGenerator
                  /\ UNCHANGED faulted
               \/ \E delivered \in BOOLEAN :
                    GenFail(g, <<"create_pull", "create_comment_failed">>,
                            TRUE, delivered)
       \/ /\ \E delivered \in BOOLEAN :
               GenFail(gn, <<"create_pull_failed">>,
                       gn.branch \in remoteBranches /\ gn.branch \notin openPRs,
                       delivered)
          /\ UNCHANGED openPRs
    /\ UNCHANGED <<pendingGen, remoteBranches>>
    /\ GenFrame

GenStep == GenMaterialize \/ GenOpenPR

\* ------------------------------------------- Change Generator (frontend)
\* The title of the issue, ISSUE_TITLE.
IssueTitle == <<"A", "d", "d", " ", "L", "o", "g", "!">>

\* The number of title words create_branch() keeps.
SlugWords == 6

\* str.split(): the maximal runs of characters other than blanks.
RECURSIVE SplitWords(_, _)
SplitWords(t, cur) ==
    IF t = <<>> THEN (IF cur = <<>> THEN <<>> ELSE <<cur>>)
    ELSE IF Head(t) = " "
         THEN (IF cur = <<>> THEN <<>> ELSE <<cur>>)
              \o SplitWords(Tail(t), <<>>)
         ELSE SplitWords(Tail(t), Append(cur, Head(t)))

\* "-".join(words)
RECURSIVE JoinHyphen(_)
JoinHyphen(ws) ==
    IF ws = <<>> THEN <<>>
    ELSE IF Len(ws) = 1 THEN ws[1]
    ELSE ws[1] \o <<"-">> \o JoinHyphen(Tail(ws))

\* create_branch(): lower the title, keep letters, digits and blanks, join
\* the first SlugWords words with '-'.
FrontBranchName(title) ==
    LET lowered == [i \in DOMAIN title |-> ToLower(title[i])]
        keep(c) == c \in (SlugChars \ {"-"}) \cup {" "}
        words == SplitWords(SelectSeq(lowered, keep), <<>>)
        first == SubSeq(words, 1, IF Len(words) < SlugWords THEN Len(words)
                                  ELSE SlugWords)
    IN <<"feature/frontend/42-">> \o JoinHyphen(first)

\* Responses of the generation service that parse as JSON.
FrontResponses == [files : {"none", "same", "changed"}]

\* main() has no handler: an exception ends the run with a traceback and
\* exit status 1; nothing is posted.
FrontCrash(g, calls, fault) ==
    /\ lastGen' = [Generated(g, 1, calls) EXCEPT !.uncaught = TRUE]
    /\ gn' = IdleGenerator
    /\ faulted' = (faulted \/ fault)
    /\ UNCHANGED issueComments

\* main(): call_claude(); an empty or missing file list aborts with exit
\* status 1; otherwise create_branch() in the fresh checkout.
FrontGenerate ==
    /\ gn.pc = "idle"
    /\ pendingGen > 0
    /\ pendingGen' = pendingGen - 1
    /\ \/ FrontCrash(IdleGenerator, <<"call_claude_failed">>, TRUE)
       \/ \E r \in FrontResponses :
            LET g == [IdleGenerator EXCEPT !.files = r.files] IN
            \/ /\ r.files = "none"
               /\ lastGen' = Generated(g, 1, <<"call_claude">>)
               /\ gn' = IdleGenerator
               /\ UNCHANGED <<issueComments, faulted>>
            \/ /\ r.files # "none"
               /\ gn' = [g EXCEPT !.pc = "front_commit",
                                  !.branch = FrontBranchName(IssueTitle),
                                  !.trace = <<"call_claude",
                                              "git_checkout_b">>]
               /\ UNCHANGED <<issueComments, faulted, lastGen>>
    /\ UNCHANGED <<remoteBranches, openPRs>>
    /\ GenFrame

\* write_files() and commit_and_push(): git add, git commit (which fails
\* when nothing is staged), git push (rejected when the branch name already
\* exists on the remote).
FrontCommitPush ==
    /\ gn.pc = "front_commit"
    /\ \/ /\ FrontCrash(gn, <<"write_text_failed">>, TRUE)
          /\ UNCHANGED remoteBranches
       \/ /\ gn.files = "same"
          /\ FrontCrash(gn, <<"write_text", "git_add", "git_commit_failed">>,
                        FALSE)
          /\ UNCHANGED remoteBranches
       \/ /\ gn.files = "changed"
          /\ gn.branch \notin remoteBranches
          /\ remoteBranches' = remoteBranches \cup {gn.branch}
          /\ gn' = [gn EXCEPT !.pc = "front_open_pr", !.pushed = TRUE,
                              !.trace = @ \o <<"write_text", "git_add",
                                               "git_commit", "git_push">>]
          /\ UNCHANGED <<issueComments, faulted, lastGen>>
       \/ /\ gn.files = "changed"
          /\ FrontCrash(gn, <<"write_text", "git_add", "git_commit",
                              "git_push_failed">>,
                        gn.branch \notin remoteBranches)
          /\ UNCHANGED remoteBranches
    /\ UNCHANGED <<pendingGen, openPRs>>
    /\ GenFrame

\* The body main() builds around the description.
FrontPrBody(pr_description) ==
    <<"## Summary", "\n">> \o pr_description
        \o <<"\n", "\n", "C", "l", "o", "s", "e", "s", " ", "#", "4", "2">>
        \o <<"\n", "\n", "## Changes", "\n", "file_list", "\n", "\n",
             "## Testing", "\n">>

\* open_pr() and post_issue_comment().
FrontOpenPR ==
    /\ gn.pc = "front_open_pr"
    /\ \/ /\ gn.branch \in remoteBranches
          /\ gn.branch \notin openPRs
          /\ openPRs' = openPRs \cup {gn.branch}
          /\ \E pr_description \in { <<>>, <<"F", "i", "x">> } :
               LET g == [gn EXCEPT !.body = FrontPrBody(pr_description)] IN
               \/ /\ issueComments' = issueComments \cup {"pr_link"}
                  /\ lastGen' = [Generated(g, 0, <<"create_pull",
                                                   "create_comment">>)
                                   EXCEPT !.posted = {"pr_link"}]
                  /\ gn' = IdleGenerator
                  /\ UNCHANGED faulted
               \/ FrontCrash(g, <<"create_pull", "create_comment_failed">>,
                             TRUE)
       \/ /\ FrontCrash(gn, <<"create_pull_failed">>,
                        gn.branch \in remoteBranches
                        /\ gn.branch \notin openPRs)
          /\ UNCHANGED openPRs
    /\ UNCHANGED <<pendingGen, remoteBranches>>
    /\ GenFrame

FrontStep == FrontGenerate \/ FrontCommitPush \/ FrontOpenPR

\* ---------------------------------------------------------- specifications
\* The pull request as the Change Generator opened it.
InitPullRequest ==
    /\ branchLog = <<Commit(<<"feat:", "resolve", "issue">>, "generator")>>
    /\ headBranchExists = TRUE
    /\ mergedHead = 0
    /\ prComments = {}
    /\ faulted = FALSE
    /\ fx = [f \in Fixers |-> IdleFixer]
    /\ lastFix = NoRun
    /\ rv = IdleReviewer
    /\ lastReview = NoReview
    /\ pendingGen = 0
    /\ remoteBranches = {BranchName(DefaultBranchSuffix)}
    /\ openPRs = {BranchName(DefaultBranchSuffix)}
    /\ issueComments = {"pr_link"}
    /\ gn = IdleGenerator
    /\ lastGen = NoGen

\* No pure helper has been applied yet.
NoCalc == [op |-> "none", in |-> <<>>, out |-> <<>>, done |-> FALSE]

\* The workflow hands every context value to the run.
NothingMissing ==
    /\ missing = "none"
    /\ calc = NoCalc

\* The Self-Healing Fixer under any number of changes-requested triggers.
InitFixerWith(triggers) ==
    /\ InitPullRequest
    /\ NothingMissing
    /\ prAuthor = "backend-agent"
    /\ asScript = TRUE
    /\ \E withFindings \in BOOLEAN :
         /\ reviews = IF withFindings
                      THEN <<Review(1, ReviewerBot, "CHANGES_REQUESTED")>>
                      ELSE <<>>
         /\ inlineComments = IF withFindings THEN <<InlineComment(1)>>
                                            ELSE <<>>
    /\ pendingFix = triggers
    /\ pendingReview = {}

Init == InitFixerWith(MaxFixerRuns)

Next == \E f \in Fixers : FixerStep(f)

Spec == Init /\ [][Next]_vars

\* Runs that never overlap: a run starts only when no other is in progress.
NextSeq == FixerStep(1)

SpecSeq == Init /\ [][NextSeq]_vars

\* Overlapping runs racing for the branch.
InitRace == InitFixerWith(RaceRuns)

SpecRace == InitRace /\ [][Next]_vars

\* The Diff Reviewer on its own: a pull request with MaxReviewRuns commits,
\* one review trigger per head (opened, then one per push).
InitReview ==
    /\ InitPullRequest
    /\ NothingMissing
    /\ prAuthor \in {"backend-agent", ReviewerBot}
    /\ asScript \in BOOLEAN
    /\ reviews \in { <<>>,
                     <<Review(1, "maintainer", "CHANGES_REQUESTED"),
                       Review(2, ReviewerBot, "CHANGES_REQUESTED")>> }
    /\ inlineComments = <<>>
    /\ pendingFix = 0
    /\ pendingReview = {Len(branchLog)}

\* A further commit is pushed to the branch by someone else: a new head.
HumanPush ==
    /\ Len(branchLog) < MaxReviewRuns
    /\ branchLog' = Append(branchLog,
                           Commit(<<"wip:", "manual", "change">>, "human"))
    /\ pendingReview' = pendingReview \cup {Len(branchLog) + 1}
    /\ UNCHANGED <<headBranchExists, mergedHead, prAuthor, reviews,
                   inlineComments, prComments, pendingFix, faulted, asScript,
                   fx, lastFix, rv, lastReview, genVars, missing, calc>>

NextReview == ReviewerStep \/ HumanPush

SpecReview == InitReview /\ [][NextReview]_vars

\* The pipeline on one pull request, from the moment the Change Generator
\* has opened it: the opening triggers the first review, a pushed fix
\* triggers a re-review, a formal REQUEST_CHANGES review triggers the fixer.
InitPipeline ==
    /\ InitPullRequest
    /\ NothingMissing
    /\ prAuthor \in {"backend-agent", ReviewerBot}
    /\ asScript \in BOOLEAN
    /\ reviews = <<>>
    /\ inlineComments = <<>>
    /\ pendingFix = 0
    /\ pendingReview = {Len(branchLog)}

NextPipeline ==
    \/ ReviewerStep
    \/ \E f \in Fixers :
         \/ Len(branchLog) < MaxPipelineCommits /\ FixerStart(f)
         \/ FixerReadFindings(f)
         \/ FixerGenerate(f)
         \/ FixerPush(f)
         \/ FixerPostFixComment(f)

SpecPipeline == InitPipeline /\ [][NextPipeline]_vars

\* No trigger is pending and no run is in progress: nothing further happens
\* to the pull request without a new external event.
Quiescent ==
    /\ pendingFix = 0
    /\ pendingReview = {}
    /\ rv.pc = "idle"
    /\ \A f \in Fixers : ~Running(f)

\* The Change Generator under repeated issue-assigned triggers for one issue;
\* no pull request exists yet.
InitIssue ==
    /\ branchLog = <<>>
    /\ headBranchExists = FALSE
    /\ mergedHead = 0
    /\ prAuthor = "backend-agent"
    /\ reviews = <<>>
    /\ inlineComments = <<>>
    /\ prComments = {}
    /\ pendingFix = 0
    /\ pendingReview = {}
    /\ faulted = FALSE
    /\ asScript = TRUE
    /\ fx = [f \in Fixers |-> IdleFixer]
    /\ lastFix = NoRun
    /\ rv = IdleReviewer
    /\ lastReview = NoReview
    /\ pendingGen = MaxGenRuns
    /\ remoteBranches = {}
    /\ openPRs = {}
    /\ issueComments = {}
    /\ gn = IdleGenerator
    /\ lastGen = NoGen

InitGen ==
    /\ InitIssue
    /\ NothingMissing

SpecGen == InitGen /\ [][GenStep]_vars

\* The two entry points that report their failures through
\* post_error_comment, each under its own triggers: the Self-Healing Fixer on
\* an open pull request, run after run, or the backend Change Generator on
\* an issue without one.
InitReport == Init \/ InitGen

NextReport == FixerStep(1) \/ GenStep

SpecReport == InitReport /\ [][NextReport]_vars

\* The frontend Change Generator under the same triggers.
SpecFront == InitGen /\ [][FrontStep]_vars

\* ------------------------------------------------------------------ claims

\* C1: a fixer run that starts on a branch whose history holds
\* MAX_FIX_ATTEMPTS or more marker commits makes no generation call, reads no
\* findings, writes no file, commits and pushes nothing: its only call is the
\* one that posts the escalation comment (which is on the pull request unless
\* the platform refused the call), and it exits 0.  No run with such a count
\* is ever found inside the fix pipeline.
CappedRunOnlyEscalates ==
    /\ \A f \in Fixers : Running(f) => fx[f].attempt < MAX_FIX_ATTEMPTS
    /\ (lastFix.ran /\ lastFix.attempt >= MAX_FIX_ATTEMPTS) =>
          /\ lastFix.trace = <<"post_error_comment">>
          /\ lastFix.exit = 0
          /\ \/ lastFix.posted = {"escalation"}
             \/ lastFix.posted = {} /\ faulted

CappedRunSeen ==
    /\ lastFix.ran
    /\ lastFix.attempt >= MAX_FIX_ATTEMPTS
    /\ lastFix.posted = {"escalation"}
    /\ "escalation" \in prComments
    /\ FixerCommits(branchLog) = MAX_FIX_ATTEMPTS

\* C2: every commit the fixer created carries the marker, whatever
\* commit_message the service returned, so that the attempt count of the next
\* run is the number of fix commits pushed so far.
FixCommitsCarryMarker ==
    /\ \A i \in DOMAIN branchLog :
          branchLog[i].by = "fixer" => Matches(branchLog[i].msg)
    /\ check_fix_attempt_count(branchLog) = FixerCommits(branchLog)

\* C3: runs that do not overlap create at most MAX_FIX_ATTEMPTS fix commits
\* on the branch.
SequentialFixCommitsBounded == FixerCommits(branchLog) <= MAX_FIX_ATTEMPTS

\* C4: overlapping runs push at most MAX_FIX_ATTEMPTS + 1 fix commits.
RacingFixCommitsBounded == FixerCommits(branchLog) <= MAX_FIX_ATTEMPTS + 1

\* C5: the pipeline comes to rest only with the pull request merged or with
\* an escalation comment on it (no external call having failed).
PipelineEndsMergedOrEscalated ==
    (Quiescent /\ ~faulted) =>
        (mergedHead > 0 \/ "escalation" \in prComments)

\* C6: the event the reviewer posts and acts on is APPROVE whenever
\* stats.critical is 0 and REQUEST_CHANGES whenever it is 1 or more, and a
\* review reporting a CRITICAL finding never ends in a merge by that run.
VerdictFollowsCriticalCount ==
    (lastReview.ran /\ lastReview.event # "none") =>
        /\ lastReview.critical = 0 => lastReview.event = "APPROVE"
        /\ lastReview.critical >= 1 =>
              /\ lastReview.event = "REQUEST_CHANGES"
              /\ lastReview.merge # "ok"
              /\ lastReview.exit # 0

\* C7: a run started as the script that posted APPROVE for a non-empty diff
\* goes on to the merge call; the branch deletion is attempted only after a
\* successful merge.
ApprovedScriptRunMerges ==
    (lastReview.ran /\ asScript /\ lastReview.verdict = "APPROVE"
                    /\ lastReview.event = "APPROVE") =>
        /\ lastReview.merge \in {"ok", "failed"}
        /\ lastReview.deleted # "none" => lastReview.merge = "ok"

\* C8: a run that posted its verdict exits non-zero on REQUEST_CHANGES and 0
\* on APPROVE, whatever the merge did; the empty-diff short-circuit exits 0.
ExitStatusReflectsVerdict ==
    lastReview.ran =>
        /\ (lastReview.event # "none" /\ lastReview.verdict = "REQUEST_CHANGES")
              => lastReview.exit # 0
        /\ (lastReview.event # "none" /\ lastReview.verdict = "APPROVE")
              => lastReview.exit = 0
        /\ (lastReview.diff = "empty" /\ "approved_empty" \in prComments
            /\ lastReview.trace[Len(lastReview.trace)] = "create_issue_comment")
              => lastReview.exit = 0

\* C9: a failed merge call after a posted APPROVE is caught inside
\* auto_merge: the approval stays in place, no branch deletion is attempted,
\* and the run exits as after a successful merge (0); a failed branch
\* deletion after a successful merge leaves the merge done and the exit 0.
MergeFailureIsSwallowed ==
    (lastReview.ran /\ lastReview.verdict = "APPROVE") =>
        /\ lastReview.merge \in {"ok", "failed"} => lastReview.exit = 0
        /\ lastReview.merge = "failed" =>
              /\ lastReview.deleted = "none"
              /\ IF lastReview.formal
                 THEN reviews[lastReview.reviewId].state = "APPROVED"
                 ELSE "review_fallback" \in prComments
        /\ lastReview.deleted = "failed" =>
              /\ lastReview.merge = "ok"
              /\ mergedHead > 0
              /\ headBranchExists

MergeFailureSeen ==
    /\ lastReview.ran
    /\ lastReview.verdict = "APPROVE"
    /\ lastReview.formal
    /\ lastReview.merge = "failed"
    /\ mergedHead = 0

\* C10: there is at most one open pull request for the issue and all runs
\* for the issue use one head branch name.
OnePullRequestPerIssue ==
    /\ Cardinality(openPRs) <= 1
    /\ Cardinality(remoteBranches) <= 1

\* C11: a generator run whose written files leave the working tree without
\* net changes makes no commit, no push and no pull-request creation call.
NoChangesOpensNoPullRequest ==
    (lastGen.ran /\ lastGen.files = "same") =>
        Calls(lastGen.trace) \cap {"git_commit", "git_push", "create_pull",
                                   "create_pull_failed"} = {}

\* C12: a generator run whose response holds no files creates no branch,
\* makes no commit, no push and no pull-request creation call.
EmptyFileListMaterializesNothing ==
    (lastGen.ran /\ lastGen.files = "none") =>
        Calls(lastGen.trace) \cap {"git_checkout_b", "git_commit", "git_push",
                                   "create_pull", "create_pull_failed"} = {}

\* C13: a reviewer run whose filtered diff is empty or whitespace only calls
\* neither the review service nor the formal-review or merge endpoints; its
\* one further call posts the approval comment, after which it exits 0 (the
\* comment is on the pull request unless the platform refused the call).
EmptyDiffShortCircuits ==
    /\ rv.diff \in {"empty", "blank"} => rv.pc = "empty_diff"
    /\ (lastReview.ran /\ lastReview.diff \in {"empty", "blank"}) =>
          /\ Calls(lastReview.trace) \cap
                {"call_claude", "call_claude_failed", "create_review",
                 "post_review_failed", "merge", "delete_ref", "NameError"} = {}
          /\ ~lastReview.formal
          /\ lastReview.event = "none"
          /\ lastReview.merge = "none"
          /\ \/ /\ lastReview.trace = <<"get_pull", "dismiss", "get_diff",
                                        "create_issue_comment">>
                /\ lastReview.exit = 0
                /\ "approved_empty" \in prComments
             \/ /\ lastReview.trace = <<"get_pull", "dismiss", "get_diff",
                                        "create_issue_comment_failed">>
                /\ faulted

EmptyDiffApprovalSeen ==
    /\ lastReview.ran
    /\ lastReview.diff = "blank"
    /\ lastReview.exit = 0
    /\ "approved_empty" \in prComments
    /\ mergedHead = 0

\* C14: once a reviewer run has passed its dismissal step, every
\* CHANGES_REQUESTED review of the reviewer bot was asked to be dismissed and
\* only those whose call failed are still in that state; no review of another
\* identity is ever dismissed; the dismissal precedes the service call and
\* the posting of the verdict; a failed dismissal ends neither the loop nor
\* the run.
StaleReviewsDismissedFirst ==
    LET BotRequests == {i \in DOMAIN reviews :
                           /\ reviews[i].user = ReviewerBot
                           /\ reviews[i].state = "CHANGES_REQUESTED"}
        Ordered(t) ==
            \A i \in DOMAIN t :
                t[i] \in {"call_claude", "call_claude_failed", "create_review",
                          "create_issue_comment", "post_review_failed",
                          "merge"}
                => \E j \in 1..(i - 1) : t[j] = "dismiss"
    IN /\ rv.pc \in {"empty_diff", "call_claude"} =>
             /\ BotRequests = rv.failed
             /\ rv.failed \subseteq rv.attempted
             /\ \A i \in rv.attempted \ rv.failed :
                   reviews[i].state = "DISMISSED"
       /\ \A i \in DOMAIN reviews :
             reviews[i].state = "DISMISSED" => reviews[i].user = ReviewerBot
       /\ \A i \in rv.attempted \cup lastReview.attempted :
             reviews[i].user = ReviewerBot
       /\ Ordered(rv.trace)
       /\ Ordered(lastReview.trace)

FailedDismissalSeen ==
    /\ lastReview.ran
    /\ Cardinality(lastReview.attempted) = 2
    /\ Cardinality(lastReview.failed) = 1
    /\ \E i \in lastReview.attempted : reviews[i].state = "DISMISSED"
    /\ \E i \in DOMAIN reviews : /\ reviews[i].user # ReviewerBot
                                  /\ reviews[i].state = "CHANGES_REQUESTED"
    /\ lastReview.formal

\* C15: a reviewer run that has posted its report made, for a pull request
\* whose author is the reviewer bot, no formal review call and exactly one
\* plain comment call (the report with the fallback note); for any other
\* author exactly one formal review call with event APPROVE or
\* REQUEST_CHANGES and no plain comment call.
SelfReviewFallsBackToComment ==
    LET Posted(r) ==
            IF prAuthor = ReviewerBot
            THEN /\ ~r.formal
                 /\ Count(r.trace, "create_review") = 0
                 /\ Count(r.trace, "create_issue_comment") = 1
                 /\ "review_fallback" \in prComments
            ELSE /\ r.formal
                 /\ Count(r.trace, "create_review") = 1
                 /\ Count(r.trace, "create_issue_comment") = 0
                 /\ r.event \in {"APPROVE", "REQUEST_CHANGES"}
                 /\ reviews[r.reviewId].user = ReviewerBot
                 /\ "review_fallback" \notin prComments
    IN /\ rv.pc = "verdict" => Posted(rv)
       /\ (lastReview.ran /\ lastReview.event # "none") => Posted(lastReview)

SelfReviewFallbackSeen ==
    /\ lastReview.ran
    /\ prAuthor = ReviewerBot
    /\ lastReview.event = "REQUEST_CHANGES"
    /\ "review_fallback" \in prComments
    /\ reviews = <<>>

\* C18: no run of an entry point ends in an exception that nothing caught,
\* and every run that ends with a non-zero status for a failure has made the
\* call that posts a comment about it.
EveryFailureIsReported ==
    /\ lastGen.ran =>
          /\ ~lastGen.uncaught
          /\ lastGen.exit # 0 => "post_error_comment" \in Calls(lastGen.trace)
    /\ lastReview.ran => ~lastReview.uncaught
    /\ (lastFix.ran /\ lastFix.exit # 0) =>
          "post_error_comment" \in Calls(lastFix.trace)

\* C16: while the pull request has no CHANGES_REQUESTED review and no inline
\* comment, a fixer run gets no further than reading the findings: no
\* generation call, no file written, no commit, exit 0 (exit 1 with an error
\* comment only when reading the findings itself failed); however many such
\* runs there are, the branch history and the attempt count stay as they
\* were.
ZeroFindingsRunIsInert ==
    (reviews = <<>> /\ inlineComments = <<>>) =>
        /\ Len(branchLog) = 1
        /\ check_fix_attempt_count(branchLog) = 0
        /\ \A f \in Fixers : fx[f].pc \in {"idle", "get_pr_details"}
        /\ lastFix.ran =>
              /\ lastFix.attempt = 0
              /\ \/ /\ lastFix.trace = <<"get_pr_details">>
                    /\ lastFix.exit = 0
                    /\ lastFix.posted = {}
                 \/ /\ lastFix.trace = <<"get_pr_details_failed",
                                         "post_error_comment">>
                    /\ lastFix.exit = 1
                    /\ faulted

ZeroFindingsRunsRepeated ==
    /\ reviews = <<>>
    /\ inlineComments = <<>>
    /\ pendingFix = 0
    /\ \A f \in Fixers : ~Running(f)
    /\ ~faulted
    /\ lastFix.ran
    /\ lastFix.exit = 0
    /\ Len(branchLog) = 1

\* C17: a fixer run whose response holds no files, or files that leave the
\* working tree without net diff, makes no commit, no push and posts no fix
\* comment, and the attempt count the next run computes is the one this run
\* computed.
NoNetDiffFixIsInert ==
    /\ \A f \in Fixers :
          fx[f].pc \in {"git_push", "post_fix_comment"} =>
              fx[f].files = "changed"
    /\ (lastFix.ran /\ lastFix.files \in {"none", "same"}) =>
          /\ Calls(lastFix.trace) \cap
                {"git_commit", "git_commit_failed", "git_push",
                 "git_push_failed", "post_fix_comment",
                 "post_fix_comment_failed"} = {}
          /\ "fix" \notin lastFix.posted
          /\ lastFix.exit = 0 => lastFix.posted = {}
          /\ (\A f \in Fixers : ~Running(f)) =>
                check_fix_attempt_count(branchLog) = lastFix.attempt

NoNetDiffFixSeen ==
    /\ lastFix.ran
    /\ lastFix.files = "same"
    /\ lastFix.exit = 0
    /\ lastFix.attempt = 2
    /\ FixerCommits(branchLog) = 2
    /\ \A f \in Fixers : ~Running(f)

\* C19: a fixer run that passed the retry guard makes each call of its
\* pipeline at most once; it ends with status 1 exactly when one of its
\* steps raised, and then its last call, and its only such call, is the one
\* that posts the failure comment.
FailingFixRunReportsOnce ==
    LET Failures == {"get_pr_details_failed", "get_current_files_failed",
                     "call_claude_failed", "git_add_failed",
                     "git_commit_failed", "git_push_failed",
                     "post_fix_comment_failed"}
        Once(t) == \A c \in Calls(t) : Count(t, c) = 1
        OneService(t) ==
            Count(t, "call_claude") + Count(t, "call_claude_failed") <= 1
    IN /\ \A f \in Fixers : Once(fx[f].trace) /\ OneService(fx[f].trace)
       /\ (lastFix.ran /\ lastFix.attempt < MAX_FIX_ATTEMPTS) =>
             /\ Once(lastFix.trace)
             /\ OneService(lastFix.trace)
             /\ lastFix.exit \in {0, 1}
             /\ IF Calls(lastFix.trace) \cap Failures # {}
                THEN /\ lastFix.exit = 1
                     /\ Count(lastFix.trace, "post_error_comment") = 1
                     /\ lastFix.trace[Len(lastFix.trace)]
                           = "post_error_comment"
                     /\ lastFix.trace[Len(lastFix.trace) - 1] \in Failures
                     /\ lastFix.posted \subseteq {"error"}
                ELSE /\ lastFix.exit = 0
                     /\ "post_error_comment" \notin Calls(lastFix.trace)

FailingFixRunSeen ==
    /\ lastFix.ran
    /\ lastFix.attempt = 1
    /\ lastFix.exit = 1
    /\ "git_push_failed" \in Calls(lastFix.trace)
    /\ "error" \in prComments
    /\ FixerCommits(branchLog) = 2

\* C20: when the platform refuses the error or escalation comment, the run
\* of the fixer still ends with status 0 (retry cap) or 1 (failure), the run
\* of the backend generator with status 1, and in neither does an exception
\* escape.
ReportingFailureIsSwallowed ==
    /\ (lastFix.ran /\ "post_error_comment" \in Calls(lastFix.trace)
                    /\ lastFix.posted = {}) =>
          /\ ~lastFix.uncaught
          /\ lastFix.exit = IF lastFix.attempt >= MAX_FIX_ATTEMPTS THEN 0
                            ELSE 1
    /\ (lastGen.ran /\ "post_error_comment" \in Calls(lastGen.trace)
                    /\ lastGen.posted = {}) =>
          /\ ~lastGen.uncaught
          /\ lastGen.exit = 1

ReportingFailureSeen ==
    /\ lastFix.ran
    /\ lastFix.attempt >= MAX_FIX_ATTEMPTS
    /\ "post_error_comment" \in Calls(lastFix.trace)
    /\ lastFix.posted = {}
    /\ lastFix.exit = 0
    /\ "escalation" \notin prComments

\* ------------------------------------------- runs with a value missing
\* Each component on its own, in an environment that lacks one of the
\* context values the component reads.  The reviewer and the generator read
\* all of theirs before anything else and are followed to that point; the
\* fixer reads one of its values later and is followed through its runs,
\* also in the environment that lacks nothing.
InitEnv ==
    /\ calc = NoCalc
    /\ \/ /\ InitPullRequest
          /\ prAuthor = "backend-agent"
          /\ asScript = TRUE
          /\ reviews = <<Review(1, ReviewerBot, "CHANGES_REQUESTED")>>
          /\ inlineComments = <<InlineComment(1)>>
          /\ pendingFix = MaxFixerRuns
          /\ pendingReview = {}
          /\ missing \in FixerConfig \cup {"GITHUB_TOKEN", "none"}
       \/ /\ InitPullRequest
          /\ prAuthor = "backend-agent"
          /\ asScript = TRUE
          /\ reviews = <<>>
          /\ inlineComments = <<>>
          /\ pendingFix = 0
          /\ pendingReview = {Len(branchLog)}
          /\ missing \in ReviewerConfig \cup {"GITHUB_TOKEN"}
       \/ /\ InitIssue
          /\ missing \in GeneratorConfig

SpecEnv ==
    InitEnv /\ [][FixerConfigError \/ FixerStep(1) \/ ReviewerConfigError
                      \/ GenConfigError]_vars

\* C21: if a context value a component requires is absent, the component
\* terminates with an error before any external call (service, platform,
\* git) and before it modifies the working tree or posts anything: no run
\* gets past reading its context, and a finished run did nothing but fail.
AbsentContextFailsFast ==
    missing # "none" =>
        /\ \A f \in Fixers : ~Running(f)
        /\ rv.pc = "idle"
        /\ gn.pc = "idle"
        /\ lastFix.ran =>
              lastFix.trace = <<"KeyError">> /\ lastFix.exit # 0
        /\ lastReview.ran =>
              lastReview.trace = <<"KeyError">> /\ lastReview.exit # 0
        /\ lastGen.ran =>
              lastGen.trace = <<"KeyError">> /\ lastGen.exit # 0
        /\ prComments = {}

\* ------------------------------------------------- the order of the steps
\* The steps of a generator run that act on the repository, the remote or
\* the platform, in the order create_branch_and_files() and open_pr() make
\* them.
RunOrder == <<"git_checkout_develop", "git_pull", "git_checkout_b",
              "write_text", "git_commit", "git_push", "create_pull",
              "create_comment">>

\* C24: in a successful Change Generator run the integration branch is
\* checked out and synchronized, then the feature branch is created, the
\* files are written, a commit is made, the branch is pushed, the pull
\* request is opened and the issue is commented, in this order; and no run
\* attempts a step unless every earlier one succeeded.
GeneratorStepsInOrder ==
    lastGen.ran =>
        LET steps == SelectSeq(lastGen.trace,
                               LAMBDA call : \E i \in DOMAIN RunOrder :
                                                RunOrder[i] = call)
        IN /\ IsPrefix(steps, RunOrder)
           /\ lastGen.exit = 0 => steps = RunOrder

\* Both generators on one issue: a trigger starts either of them.
SpecGenerators == InitGen /\ [][GenStep \/ FrontStep]_vars

progVars == <<prVars, genVars, faulted, missing>>

\* n times the character c.
Pad(c, n) == [i \in 1..n |-> c]

\* Values of "branch_suffix" around the cap: a run of letters, then up to
\* SlugTail characters, each a lowercase letter, an uppercase one, a digit,
\* a hyphen or a character outside [a-z0-9-].
SlugInputs ==
    { Pad("a", n) \o t :
        n \in {0} \cup ((SlugCap - SlugTail)..(SlugCap + 1)),
        t \in UNION {[1..k -> {"a", "Z", "7", "-", "_"}] : k \in 0..SlugTail} }

InitSlug ==
    /\ InitIssue
    /\ missing = "none"
    /\ \E text \in SlugInputs : calc = [NoCalc EXCEPT !.op = "sanitize_branch_name", !.in = text]

ApplySanitize ==
    /\ calc.op = "sanitize_branch_name"
    /\ ~calc.done
    /\ calc' = [calc EXCEPT !.out = sanitize_branch_name(calc.in),
                            !.done = TRUE]
    /\ UNCHANGED progVars

SpecSlug == InitSlug /\ [][ApplySanitize]_vars

\* C22: for every input, the backend generator's sanitized branch slug has
\* only characters from a-z, 0-9 and '-', no two consecutive hyphens, and
\* at most 30 characters.
SlugIsWellFormed ==
    calc.op = "sanitize_branch_name" /\ calc.done =>
        /\ \A i \in DOMAIN calc.out :
              calc.out[i] \in {"a", "z", "7", "-"}
        /\ \A i \in 1..(Len(calc.out) - 1) :
              ~(calc.out[i] = "-" /\ calc.out[i + 1] = "-")
        /\ Len(calc.out) <= 30

\* An input with an uppercase letter and a character outside the slug
\* alphabet, longer than the cap once sanitized, has been cut to the cap.
SlugCutSeen ==
    /\ calc.op = "sanitize_branch_name"
    /\ calc.done
    /\ Len(calc.in) > 30
    /\ Len(calc.out) = 30
    /\ \E i, j \in DOMAIN calc.in : calc.in[i] = "Z" /\ calc.in[j] = "_"

\* C23: for every input, also one whose sanitized form is longer than the
\* cap, the final branch slug neither starts nor ends with a hyphen.
SlugHasNoEdgeHyphen ==
    calc.op = "sanitize_branch_name" /\ calc.done /\ calc.out # <<>> =>
        calc.out[1] # "-" /\ calc.out[Len(calc.out)] # "-"

\* ------------------------------------------------------- the diff filter
MAX_DIFF_CHARS == 80000

SKIP_PATHS ==
    { <<"p", "a", "c", "k", "a", "g", "e", "-", "l", "o", "c", "k", ".", "j", "s", "o", "n">>,
      <<"y", "a", "r", "n", ".", "l", "o", "c", "k">>,
      <<"p", "o", "e", "t", "r", "y", ".", "l", "o", "c", "k">>,
      <<"r", "e", "q", "u", "i", "r", "e", "m", "e", "n", "t", "s", ".", "t", "x", "t">>,
      <<"a", "l", "e", "m", "b", "i", "c", "/", "v", "e", "r", "s", "i", "o", "n", "s", "/">> }

REVIEWABLE_EXTENSIONS ==
    { <<".", "p", "y">>,
      <<".", "j", "s">>,
      <<".", "j", "s", "x">>,
      <<".", "t", "s">>,
      <<".", "t", "s", "x">>,
      <<".", "s", "q", "l">>,
      <<".", "y", "m", "l">>,
      <<".", "y", "a", "m", "l">>,
      <<".", "d", "o", "c", "k", "e", "r", "f", "i", "l", "e">>,
      <<".", "j", "s", "o", "n">>,
      <<".", "e", "n", "v", ".", "e", "x", "a", "m", "p", "l", "e">>,
      <<".", "s", "h">> }

\* "\n\n[DIFF TRUNCATED - too large. Review remaining files manually.]";
\* the bracketed sentence is kept as one element.
TruncationMarker == <<"\n", "\n", "[DIFF TRUNCATED]">>

DiffGit == <<"d", "i", "f", "f", " ", "-", "-", "g", "i", "t">>

\* The header line git writes for a file.
HeaderLine(path) ==
    DiffGit \o <<" ", "a", "/">> \o path \o <<" ", "b", "/">> \o path

\* str.split("\n"): the text between the newlines.
SplitLines(t) ==
    LET NL == {i \in DOMAIN t : t[i] = "\n"}
        n == Cardinality(NL)
        cut(k) == IF k = 0 THEN 0
                  ELSE IF k = n + 1 THEN Len(t) + 1
                  ELSE CHOOSE i \in NL :
                         Cardinality({j \in NL : j < i}) = k - 1
    IN [k \in 1..(n + 1) |-> SubSeq(t, cut(k - 1) + 1, cut(k) - 1)]

\* "\n".join(lines)
RECURSIVE JoinLines(_)
JoinLines(lines) ==
    IF lines = <<>> THEN <<>>
    ELSE IF Len(lines) = 1 THEN lines[1]
    ELSE lines[1] \o <<"\n">> \o JoinLines(Tail(lines))

\* line.split(sep)[1]: the text between the first occurrence of sep in the
\* line and the next one, or the end of the line.
SecondPart(sep, line) ==
    LET first(t) == CHOOSE i \in 1..(Len(t) - Len(sep) + 1) :
                       /\ SubSeq(t, i, i + Len(sep) - 1) = sep
                       /\ \A j \in 1..(i - 1) :
                             SubSeq(t, j, j + Len(sep) - 1) # sep
        rest == SubSeq(line, first(line) + Len(sep), Len(line))
    IN IF Contains(sep, rest) THEN SubSeq(rest, 1, first(rest) - 1) ELSE rest

\* Path(filename).suffix.lower(): what follows the last dot of the last
\* path component, the dot included, unless that dot is the component's
\* first or last character or there is none.
PathSuffix(filename) ==
    LET slashes == {i \in DOMAIN filename : filename[i] = "/"}
        from == IF slashes = {} THEN 1
                ELSE 1 + CHOOSE i \in slashes : \A j \in slashes : j <= i
        name == SubSeq(filename, from, Len(filename))
        dots == {i \in DOMAIN name : name[i] = "."}
        last == IF dots = {} THEN 0
                ELSE CHOOSE i \in dots : \A j \in dots : j <= i
    IN IF 1 < last /\ last < Len(name)
       THEN [i \in 1..(Len(name) - last + 1) |-> ToLower(name[last + i - 1])]
       ELSE <<>>

\* The test filter_diff() makes on a header line: a skip-list entry occurs
\* in it, or `ext not in REVIEWABLE_EXTENSIONS and ext != ""`.
SkipFile(line) ==
    \/ \E skip_path \in SKIP_PATHS : Contains(skip_path, line)
    \/ /\ Contains(<<" ", "b", "/">>, line)
       /\ LET ext == PathSuffix(SecondPart(<<" ", "b", "/">>, line))
          IN ext \notin REVIEWABLE_EXTENSIONS /\ ext # <<>>

\* The loop of filter_diff() over the lines, from a given value of
\* skip_current_file.
RECURSIVE FilterLines(_, _)
FilterLines(lines, skip_current_file) ==
    IF lines = <<>> THEN <<>>
    ELSE LET line == Head(lines)
             skip == IF IsPrefix(DiffGit, line) THEN SkipFile(line)
                     ELSE skip_current_file
         IN (IF skip THEN <<>> ELSE <<line>>) \o FilterLines(Tail(lines), skip)

\* A ceiling that already cuts a text of exactly MAX_DIFF_CHARS characters.
DiffTooLargeAtCeiling(n) == n >= MAX_DIFF_CHARS

\* `len(filtered) > MAX_DIFF_CHARS`
DiffTooLarge(n) == n > MAX_DIFF_CHARS

\* The filtered text before the ceiling is applied.
FilteredText(diff) == JoinLines(FilterLines(SplitLines(diff), FALSE))

filter_diff(diff) ==
    LET filtered == FilteredText(diff)
    IN IF DiffTooLarge(Len(filtered))
       THEN SubSeq(filtered, 1, MAX_DIFF_CHARS) \o TruncationMarker
       ELSE filtered

\* Paths of changed files: reviewable, with an uppercase extension, without
\* extension, a dotfile, the listed .env.example, not reviewable,
\* skip-listed, and under the skip-listed directory.
DiffPaths ==
    { <<"a", ".", "p", "y">>,
      <<"s", "r", "c", "/", "B", ".", "P", "Y">>,
      <<"M", "a", "k", "e">>,
      <<".", "e", "n", "v">>,
      <<".", "e", "n", "v", ".", "e", "x", "a", "m", "p", "l", "e">>,
      <<"i", ".", "p", "n", "g">>,
      <<"y", "a", "r", "n", ".", "l", "o", "c", "k">>,
      <<"a", "l", "e", "m", "b", "i", "c", "/", "v", "e", "r", "s", "i", "o", "n", "s", "/", "1", ".", "p", "y">> }

\* A block of a diff: the changed file, its hunk lines, and the length of
\* one further added line (0: there is none).
Block(path, hunk, fill) == [path |-> path, hunk |-> hunk, fill |-> fill]

BlockLines(b) ==
    <<HeaderLine(b.path)>> \o b.hunk
        \o (IF b.fill = 0 THEN <<>> ELSE <<Pad("x", b.fill)>>)

RECURSIVE DiffLines(_)
DiffLines(blocks) ==
    IF blocks = <<>> THEN <<>>
    ELSE BlockLines(Head(blocks)) \o DiffLines(Tail(blocks))

\* get_diff(): the output of git diff, every line ended by a newline.
get_diff(blocks) ==
    IF blocks = <<>> THEN <<>> ELSE JoinLines(DiffLines(blocks)) \o <<"\n">>

\* Diffs of up to DiffBlocks small blocks, and diffs whose filtered text is
\* within DiffSlack characters of the ceiling, with or without a
\* skip-listed block in front.
DiffInputs ==
    LET hunks == { <<<<"+", "x">>>>, <<<<"-", "y">>, <<"+", "x">>>> }
        small == { Block(path, hunk, 0) : path \in DiffPaths, hunk \in hunks }
        a_py == <<"a", ".", "p", "y">>
        yarn_lock == <<"y", "a", "r", "n", ".", "l", "o", "c", "k">>
        \* the reviewable block whose filtered text has total characters
        large(total) ==
            Block(a_py, <<<<"+", "x">>>>,
                  total - Len(get_diff(<<Block(a_py, <<<<"+", "x">>>>, 0)>>))
                        - 1)
    IN UNION {[1..k -> small] : k \in 0..DiffBlocks}
       \cup { front \o <<large(MAX_DIFF_CHARS + d)>> :
                front \in { <<>>, <<Block(yarn_lock, <<<<"+", "x">>>>, 0)>> },
                d \in (0 - DiffSlack)..DiffSlack }

InitFilter ==
    /\ InitPullRequest
    /\ prAuthor = "backend-agent"
    /\ asScript = TRUE
    /\ reviews = <<>>
    /\ inlineComments = <<>>
    /\ pendingFix = 0
    /\ pendingReview = {}
    /\ missing = "none"
    /\ \E blocks \in DiffInputs : calc = [NoCalc EXCEPT !.op = "filter_diff", !.in = blocks]

ApplyFilter ==
    /\ calc.op = "filter_diff"
    /\ ~calc.done
    /\ calc' = [calc EXCEPT !.out = filter_diff(get_diff(calc.in)),
                            !.done = TRUE]
    /\ UNCHANGED progVars

SpecFilter == InitFilter /\ [][ApplyFilter]_vars

\* C26: for every diff made of whole-file blocks, the diff filter removes
\* exactly the blocks whose path matches a skip-list entry or whose file
\* extension is outside the reviewable set, every line of them, and keeps
\* all other blocks unchanged and in their original order.
FilterRemovesExactlyUnreviewable ==
    calc.op = "filter_diff" /\ calc.done /\ Len(calc.out) < 80000 =>
        LET Unreviewable(b) ==
                \/ \E skip_path \in SKIP_PATHS : Contains(skip_path, b.path)
                \/ PathSuffix(b.path) \notin REVIEWABLE_EXTENSIONS
        IN SelectSeq(SplitLines(calc.out), LAMBDA line : line # <<>>)
             = DiffLines(SelectSeq(calc.in, LAMBDA b : ~Unreviewable(b)))

\* C27: a filtered diff longer than 80,000 characters is returned as its
\* first 80,000 characters followed by the truncation marker; a filtered
\* diff of at most 80,000 characters is returned unchanged, without marker.
CeilingCutsAndMarks ==
    calc.op = "filter_diff" /\ calc.done =>
        LET filtered == FilteredText(get_diff(calc.in)) IN
        IF Len(filtered) > 80000
        THEN /\ Len(calc.out) = 80003
             /\ SubSeq(calc.out, 1, 80000) = SubSeq(filtered, 1, 80000)
             /\ SubSeq(calc.out, 80001, 80003)
                  = <<"\n", "\n", "[DIFF TRUNCATED]">>
        ELSE /\ calc.out = filtered
             /\ \A i \in DOMAIN calc.out : calc.out[i] # "[DIFF TRUNCATED]"

\* A diff with a skip-listed block in front whose filtered text is one
\* character over the ceiling has been cut and marked.
DiffCutSeen ==
    /\ calc.op = "filter_diff"
    /\ calc.done
    /\ Len(calc.in) = 2
    /\ Len(FilteredText(get_diff(calc.in))) = 80001
    /\ calc.out[Len(calc.out)] = "[DIFF TRUNCATED]"

\* --------------------------------------------------- the findings list
\* Reviews and inline comments a pull request can have gathered: up to
\* MaxFindingReviews reviews of the reviewer identity or of a maintainer,
\* in any state, and up to MaxInlineComments inline comments, each made with
\* one of the reviews; bodies may repeat.
InitFindings ==
    /\ InitPullRequest
    /\ prAuthor = "backend-agent"
    /\ asScript = TRUE
    /\ pendingFix = 0
    /\ pendingReview = {}
    /\ missing = "none"
    /\ calc = [NoCalc EXCEPT !.op = "get_pr_details"]
    /\ \E n \in 0..MaxFindingReviews :
         /\ \E r \in [1..n -> [user : {ReviewerBot, "maintainer"},
                                state : {"CHANGES_REQUESTED", "APPROVED",
                                         "DISMISSED"},
                                body : {"b1", "b2"}]] :
              reviews = [i \in 1..n |->
                            [id |-> i, user |-> r[i].user,
                             state |-> r[i].state, body |-> r[i].body]]
         /\ \E k \in 0..(IF n = 0 THEN 0 ELSE MaxInlineComments) :
              inlineComments \in [1..k -> [path : {"app.py"}, line : {1},
                                           body : {"c1", "c2"},
                                           review : 1..n]]

\* get_pr_details(), then the findings part of call_claude().
ApplyFindings ==
    /\ calc.op = "get_pr_details"
    /\ ~calc.done
    /\ calc' = [calc EXCEPT
                   !.out = findings_text(get_pr_details(reviews,
                                                        inlineComments)),
                   !.done = TRUE]
    /\ UNCHANGED progVars

SpecFindings == InitFindings /\ [][ApplyFindings]_vars

\* C28: the findings list passed to the fix request is the body of every
\* review in state CHANGES_REQUESTED, in platform order, followed by every
\* inline comment (file, line, body), in platform order; no entry is
\* dropped, de-duplicated or reordered.
FindingsAreAllInOrder ==
    calc.op = "get_pr_details" /\ calc.done =>
        LET requested == {i \in DOMAIN reviews :
                            reviews[i].state = "CHANGES_REQUESTED"}
            n == Cardinality(requested)
            \* the position in reviews of the k-th such review
            at(k) == CHOOSE i \in requested :
                        Cardinality({j \in requested : j < i}) = k - 1
        IN /\ Len(calc.out) = n + Len(inlineComments)
           /\ \A k \in 1..n :
                 /\ calc.out[k].title = "Review Body"
                 /\ calc.out[k].body = reviews[at(k)].body
           /\ \A k \in DOMAIN inlineComments :
                 /\ calc.out[n + k].title = "Inline Comment"
                 /\ calc.out[n + k].at = <<inlineComments[k].path,
                                           inlineComments[k].line>>
                 /\ calc.out[n + k].body = inlineComments[k].body

\* Two reviews with the same body, one of them of a maintainer, and two
\* identical inline comments all reached the fix request.
RepeatedFindingsSeen ==
    /\ calc.op = "get_pr_details"
    /\ calc.done
    /\ Len(reviews) = 2
    /\ reviews[1].body = reviews[2].body
    /\ reviews[1].user # reviews[2].user
    /\ Len(inlineComments) = 2
    /\ inlineComments[1] = inlineComments[2]
    /\ Len(calc.out) = 4

\* C29: the fixer acts only on the latest non-dismissed REQUEST_CHANGES
\* review of the automated reviewer identity: bodies of reviews of other
\* identities or of earlier reviews, and inline comments of dismissed or
\* superseded reviews, are not fed to the fix request and cause no
\* generation call.
OnlyLatestReviewerFindingsAreFed ==
    calc.op = "get_pr_details" /\ calc.done =>
        LET mine == {i \in DOMAIN reviews :
                       /\ reviews[i].state = "CHANGES_REQUESTED"
                       /\ reviews[i].user = ReviewerBot}
            latest == {i \in mine : \A j \in mine : j <= i}
        IN /\ Cardinality({k \in DOMAIN calc.out :
                             calc.out[k].title = "Review Body"})
                = Cardinality(latest)
           /\ \A k \in DOMAIN calc.out :
                 calc.out[k].title = "Review Body" =>
                    \E i \in latest : calc.out[k].body = reviews[i].body
           /\ Cardinality({k \in DOMAIN calc.out :
                             calc.out[k].title = "Inline Comment"})
                = Cardinality({k \in DOMAIN inlineComments :
                                 inlineComments[k].review \in latest})
           /\ ~NoFindings(calc.out) => latest # {}

\* ------------------------------------------------ the file section
\* The character budget of the file section of the fix request.
FilesBudget == 60000

\* "\n[... remaining files truncated for length ...]"
FilesTruncated == [text |-> "[... remaining files truncated for length ...]"]

\* A budget that is spent as soon as it is reached.
OverBudgetAtBudget(total_chars) == total_chars >= FilesBudget

\* `total_chars > 60_000`
OverBudget(total_chars) == total_chars > FilesBudget

\* The loop of call_claude() over current_files, from a given value of
\* total_chars: the entries of files_text, in order, a file's entry being
\* f"\n\n### {path}\n```\n{content}\n```".
RECURSIVE files_text(_, _)
files_text(files, total_chars) ==
    IF files = <<>> THEN <<>>
    ELSE IF OverBudget(total_chars) THEN <<FilesTruncated>>
    ELSE <<[text |-> "###", path |-> Head(files).path,
            len |-> Head(files).len]>>
         \o files_text(Tail(files), total_chars + Head(files).len)

\* The files get_current_files() returns, in traversal order, with content
\* lengths: empty, one character, half the budget, the budget, and one
\* character more.
InitBudget ==
    /\ InitPullRequest
    /\ prAuthor = "backend-agent"
    /\ asScript = TRUE
    /\ reviews = <<Review(1, ReviewerBot, "CHANGES_REQUESTED")>>
    /\ inlineComments = <<>>
    /\ pendingFix = 0
    /\ pendingReview = {}
    /\ missing = "none"
    /\ \E k \in 0..MaxBudgetFiles :
         \E sizes \in [1..k -> {0, 1, FilesBudget \div 2, FilesBudget,
                                FilesBudget + 1}] :
           calc = [NoCalc EXCEPT
                     !.op = "files_text",
                     !.in = [i \in 1..k |-> [path |-> i, len |-> sizes[i]]]]

ApplyBudget ==
    /\ calc.op = "files_text"
    /\ ~calc.done
    /\ calc' = [calc EXCEPT !.out = files_text(calc.in, 0), !.done = TRUE]
    /\ UNCHANGED progVars

SpecBudget == InitBudget /\ [][ApplyBudget]_vars

\* C30: files are appended in traversal order as long as the total content
\* length of the files already included does not exceed 60,000; at the
\* first file reached after the total exceeds it the marker is appended
\* once and that file and all later ones are omitted; the marker is there
\* iff a file was omitted, and nothing follows it.
BudgetCutsAtFirstFileOver ==
    calc.op = "files_text" /\ calc.done =>
        LET RECURSIVE Sum(_)
            Sum(k) == IF k = 0 THEN 0 ELSE Sum(k - 1) + calc.in[k].len
            \* the files reached when the files before them exceed 60,000
            late == {i \in DOMAIN calc.in : Sum(i - 1) > 60000}
            kept == Len(calc.in) - Cardinality(late)
            marks == {i \in DOMAIN calc.out :
                        calc.out[i].text
                          = "[... remaining files truncated for length ...]"}
        IN /\ \A i \in 1..kept :
                 /\ calc.out[i].text = "###"
                 /\ calc.out[i].path = calc.in[i].path
                 /\ calc.out[i].len = calc.in[i].len
           /\ \A i \in late : \A k \in DOMAIN calc.out :
                 calc.out[k].text = "###" =>
                    calc.out[k].path # calc.in[i].path
           /\ (late # {}) <=> (marks # {})
           /\ marks # {} => marks = {Len(calc.out)}
           /\ Len(calc.out) = kept + (IF late = {} THEN 0 ELSE 1)

\* A file of exactly 60,000 characters did not spend the budget: the next
\* file was included, and the third was replaced by the marker.
BudgetSpentSeen ==
    /\ calc.op = "files_text"
    /\ calc.done
    /\ Len(calc.in) = 3
    /\ calc.in[1].len = 60000
    /\ calc.in[2].len = 1
    /\ Len(calc.out) = 3
    /\ calc.out[2].text = "###"
    /\ calc.out[2].path = calc.in[2].path
    /\ calc.out[3].text = "[... remaining files truncated for length ...]"

\* ------------------------------------------------ the attempt count
\* Histories the fixer can find checked out: up to MaxCountCommits commits,
\* each inherited from the integration branch, made by the generator (its
\* message is the service's choice), by a human or by the fixer, with a
\* message that holds the marker text or one that does not.
InitCount ==
    /\ InitPullRequest
    /\ prAuthor = "backend-agent"
    /\ asScript = TRUE
    /\ reviews = <<Review(1, ReviewerBot, "CHANGES_REQUESTED")>>
    /\ inlineComments = <<>>
    /\ pendingFix = 0
    /\ pendingReview = {}
    /\ missing = "none"
    /\ \E k \in 0..MaxCountCommits :
         \E log \in [1..k -> [msg : {DefaultFixMessage}
                                     \cup ServiceFixMessages,
                               by : {"develop", "generator", "human",
                                     "fixer"}]] :
           calc = [NoCalc EXCEPT !.op = "check_fix_attempt_count",
                                 !.in = log]

ApplyCount ==
    /\ calc.op = "check_fix_attempt_count"
    /\ ~calc.done
    /\ calc' = [calc EXCEPT !.out = <<check_fix_attempt_count(calc.in)>>,
                            !.done = TRUE]
    /\ UNCHANGED progVars

SpecCount == InitCount /\ [][ApplyCount]_vars

\* C36: the attempt count the fixer computes for a branch equals the number
\* of commits the Self-Healing Fixer made on it; commits made by anyone
\* else are not counted even if their message contains the marker text.
AttemptCountCountsFixerCommits ==
    calc.op = "check_fix_attempt_count" /\ calc.done =>
        calc.out = <<Cardinality({i \in DOMAIN calc.in :
                                    calc.in[i].by = "fixer"})>>

\* C33: for every verdict value the review service can return, a Diff
\* Reviewer run attempts the merge only if the review event it posted in
\* that run was APPROVE; a run that posted a REQUEST_CHANGES event never
\* attempts a merge and exits non-zero.
MergeOnlyAfterApproveEvent ==
    lastReview.ran =>
        /\ lastReview.merge \in {"ok", "failed"} =>
              lastReview.event = "APPROVE"
        /\ lastReview.event = "REQUEST_CHANGES" =>
              /\ "merge" \notin Calls(lastReview.trace)
              /\ lastReview.exit # 0

\* C35: whenever a Diff Reviewer run has dismissed a prior REQUEST_CHANGES
\* review, that run ends with a fresh verdict posted on the pull request (a
\* formal review, the fallback comment, or the empty-diff approval comment):
\* no failure leaves the blocking review dismissed without a replacement.
DismissalIsFollowedByVerdict ==
    (lastReview.ran /\ lastReview.attempted \ lastReview.failed # {}) =>
        \E i \in DOMAIN lastReview.trace :
            lastReview.trace[i] \in {"create_review", "create_issue_comment"}

\* C34: whenever a Diff Reviewer run merges the pull request, the head that
\* is merged is the head whose diff that run reviewed, also when a commit
\* is pushed to the branch between the run's diff acquisition and its merge
\* call.
MergedHeadIsReviewedHead ==
    (lastReview.ran /\ lastReview.merge = "ok") =>
        mergedHead = lastReview.head

(***************************************************************************)
(* Backend application: retry_with_exponential_backoff.  The function is   *)
(* defined twice, in app/utils/retry.py and in app/main.py.  A call is     *)
(* described by max_retries, base_delay, max_delay, the outcome of each    *)
(* call of the wrapped function ("ok" or "Exception") and the jitter       *)
(* random.uniform(0, 1) draws before each sleep.  Delays are counted in    *)
(* tenths of a second.  The result records the number of calls made, the   *)
(* sleeps taken in order, how the function ended and the call whose        *)
(* result or exception it ended with.                                      *)
(***************************************************************************)
MaxRetries == 3

BackoffDelay(in, attempt) ==
    LET raw == in.base_delay * (2 ^ attempt) * 10 + in.jitter[attempt + 1]
        cap == in.max_delay * 10
    IN  IF raw < cap THEN raw ELSE cap

\* app/utils/retry.py: the loop remembers last_exception and raises it
\* again after the loop, should the loop ever end.
RECURSIVE retry_with_exponential_backoff(_, _, _)
retry_with_exponential_backoff(in, attempt, sleeps) ==
    IF attempt >= in.max_retries
    THEN IF attempt > 0
         THEN [calls |-> attempt, sleeps |-> sleeps,
               outcome |-> "raise", of |-> attempt]
         ELSE [calls |-> attempt, sleeps |-> sleeps,
               outcome |-> "None", of |-> 0]
    ELSE IF in.results[attempt + 1] = "ok"
    THEN [calls |-> attempt + 1, sleeps |-> sleeps,
          outcome |-> "return", of |-> attempt + 1]
    ELSE IF attempt = in.max_retries - 1
    THEN [calls |-> attempt + 1, sleeps |-> sleeps,
          outcome |-> "raise", of |-> attempt + 1]
    ELSE retry_with_exponential_backoff(
             in, attempt + 1, Append(sleeps, BackoffDelay(in, attempt)))

\* The same loop without the re-raise on the last attempt.
RECURSIVE main_retry_sleeping_after_last(_, _, _)
main_retry_sleeping_after_last(in, attempt, sleeps) ==
    IF attempt >= in.max_retries
    THEN [calls |-> attempt, sleeps |-> sleeps,
          outcome |-> "None", of |-> 0]
    ELSE IF in.results[attempt + 1] = "ok"
    THEN [calls |-> attempt + 1, sleeps |-> sleeps,
          outcome |-> "return", of |-> attempt + 1]
    ELSE main_retry_sleeping_after_last(
             in, attempt + 1, Append(sleeps, BackoffDelay(in, attempt)))

\* app/main.py: the loop keeps no last_exception; a loop that ends returns
\* None.
RECURSIVE main_retry_with_exponential_backoff(_, _, _)
main_retry_with_exponential_backoff(in, attempt, sleeps) ==
    IF attempt >= in.max_retries
    THEN [calls |-> attempt, sleeps |-> sleeps,
          outcome |-> "None", of |-> 0]
    ELSE IF in.results[attempt + 1] = "ok"
    THEN [calls |-> attempt + 1, sleeps |-> sleeps,
          outcome |-> "return", of |-> attempt + 1]
    ELSE IF attempt = in.max_retries - 1
    THEN [calls |-> attempt + 1, sleeps |-> sleeps,
          outcome |-> "raise", of |-> attempt + 1]
    ELSE main_retry_with_exponential_backoff(
             in, attempt + 1, Append(sleeps, BackoffDelay(in, attempt)))

InitRetry ==
    /\ InitPullRequest
    /\ prAuthor = "backend-agent"
    /\ asScript = TRUE
    /\ reviews = <<>>
    /\ inlineComments = <<>>
    /\ pendingFix = 0
    /\ pendingReview = {}
    /\ missing = "none"
    /\ \E n \in 0..MaxRetries, base \in {1, 2}, cap \in {1, 3, 60} :
         \E res \in [1..n -> {"ok", "Exception"}], jit \in [1..n -> {0, 5, 10}] :
           calc = [NoCalc EXCEPT
                     !.op = "retry_with_exponential_backoff",
                     !.in = [max_retries |-> n, base_delay |-> base,
                             max_delay |-> cap, results |-> res,
                             jitter |-> jit]]

ApplyRetry ==
    /\ calc.op = "retry_with_exponential_backoff"
    /\ ~calc.done
    /\ calc' = [calc EXCEPT
                  !.out = <<retry_with_exponential_backoff(calc.in, 0, <<>>),
                            main_retry_with_exponential_backoff(
                                calc.in, 0, <<>>)>>,
                  !.done = TRUE]
    /\ UNCHANGED progVars

SpecRetry == InitRetry /\ [][ApplyRetry]_vars

\* C37: retry_with_exponential_backoff calls the wrapped function at most
\* max_retries times, returns the result of the first successful call
\* without calling again, raises the exception of the last call when every
\* call fails, sleeps only between two calls and never after the last one,
\* never sleeps longer than max_delay, and the copy in app/utils/retry.py
\* and the copy in app/main.py make the same calls and sleeps and end the
\* same way.
RetryIsBoundedAndCopiesAgree ==
    (calc.op = "retry_with_exponential_backoff" /\ calc.done) =>
        LET in == calc.in
            u  == calc.out[1]
            m  == calc.out[2]
            AllFail == \A i \in 1..in.max_retries : in.results[i] = "Exception"
        IN  /\ u = m
            /\ \A r \in {u, m} :
                 /\ r.calls <= in.max_retries
                 /\ r.outcome = "return" =>
                       /\ r.of = r.calls
                       /\ in.results[r.of] = "ok"
                       /\ \A i \in 1..(r.of - 1) : in.results[i] = "Exception"
                 /\ (\E i \in 1..in.max_retries : in.results[i] = "ok") =>
                       r.outcome = "return"
                 /\ (AllFail /\ in.max_retries >= 1) =>
                       /\ r.outcome = "raise"
                       /\ r.of = in.max_retries
                       /\ r.calls = in.max_retries
                 /\ Len(r.sleeps) = (IF r.calls = 0 THEN 0 ELSE r.calls - 1)
                 /\ \A i \in DOMAIN r.sleeps :
                       /\ r.sleeps[i] <= in.max_delay * 10
                       /\ r.sleeps[i] >= 0

RetriesExhaustedSeen ==
    /\ calc.op = "retry_with_exponential_backoff"
    /\ calc.done
    /\ calc.in.max_retries >= 2
    /\ calc.out[2].outcome = "raise"
    /\ calc.out[2].calls = calc.in.max_retries
    /\ Len(calc.out[2].sleeps) = calc.in.max_retries - 1
    /\ \E i \in DOMAIN calc.out[2].sleeps :
          calc.out[2].sleeps[i] = calc.in.max_delay * 10
    /\ calc.out[1] = calc.out[2]

(***************************************************************************)
(* Self-Healing Fixer: get_current_files().  A file of the working tree is *)
(* given by the directories above it (path.parts without the last part),   *)
(* its name, and whether read_text() succeeds on it.  Names are sequences  *)
(* of characters, so that suffix and part comparisons are computed.        *)
(***************************************************************************)
MaxDepth == 2

relevant_extensions ==
    { <<".", "p", "y">>,
      <<".", "y", "m", "l">>,
      <<".", "y", "a", "m", "l">>,
      <<".", "e", "n", "v", ".", "e", "x", "a", "m", "p", "l", "e">>,
      <<".", "t", "x", "t">>,
      <<".", "d", "o", "c", "k", "e", "r", "f", "i", "l", "e">> }

skip_dirs ==
    { <<".", "g", "i", "t">>,
      <<"_", "_", "p", "y", "c", "a", "c", "h", "e", "_", "_">>,
      <<"n", "o", "d", "e", "_", "m", "o", "d", "u", "l", "e", "s">>,
      <<".", "v", "e", "n", "v">>,
      <<"v", "e", "n", "v">>,
      <<"a", "l", "e", "m", "b", "i", "c", "/", "v", "e", "r", "s", "i", "o", "n", "s">> }

\* A path that is a file is kept when none of its parts (the directories
\* and the name) is a skip_dirs entry, its lowered suffix is relevant or
\* its name is Dockerfile, and read_text() succeeds.
get_current_files(tree) ==
    {f \in tree :
        LET parts == {f.dirs[i] : i \in DOMAIN f.dirs} \cup {f.name}
        IN  /\ parts \cap skip_dirs = {}
            /\ \/ PathSuffix(f.name) \in relevant_extensions
               \/ f.name = <<"D", "o", "c", "k", "e", "r", "f", "i", "l", "e">>
            /\ f.readable}

InitContext ==
    /\ InitPullRequest
    /\ prAuthor = "backend-agent"
    /\ asScript = TRUE
    /\ reviews = <<Review(1, ReviewerBot, "CHANGES_REQUESTED")>>
    /\ inlineComments = <<>>
    /\ pendingFix = 0
    /\ pendingReview = {}
    /\ missing = "none"
    /\ LET TreeDirs ==
             { <<".", "g", "i", "t">>,
               <<"v", "e", "n", "v">>,
               <<"a", "l", "e", "m", "b", "i", "c">>,
               <<"v", "e", "r", "s", "i", "o", "n", "s">>,
               <<"a", "p", "p">> }
           TreeNames ==
             { <<"a", ".", "p", "y">>,
               <<"D", "o", "c", "k", "e", "r", "f", "i", "l", "e">>,
               <<"n", "o", "t", "e", "s", ".", "m", "d">>,
               <<".", "e", "n", "v", ".", "e", "x", "a", "m", "p", "l", "e">>,
               <<"c", "i", ".", "Y", "M", "L">> }
       IN
       \E d \in 0..MaxDepth :
         \E dirs \in [1..d -> TreeDirs], name \in TreeNames,
            top \in TreeNames, r \in BOOLEAN, rtop \in BOOLEAN :
           calc = [NoCalc EXCEPT
                     !.op = "get_current_files",
                     !.in = {[dirs |-> dirs, name |-> name, readable |-> r],
                             [dirs |-> <<>>, name |-> top,
                              readable |-> rtop]}]

ApplyContext ==
    /\ calc.op = "get_current_files"
    /\ ~calc.done
    /\ calc' = [calc EXCEPT !.out = get_current_files(calc.in),
                            !.done = TRUE]
    /\ UNCHANGED progVars

SpecContext == InitContext /\ [][ApplyContext]_vars

\* C31: the fixer's context reader returns no file that lies under .git,
\* node_modules, .venv, venv, __pycache__ or alembic/versions at any depth,
\* and returns every other readable file whose extension is in the
\* relevant-extension list.
ContextSkipsExcludedDirectories ==
    (calc.op = "get_current_files" /\ calc.done) =>
        \A f \in calc.in :
            LET excluded ==
                  \/ \E i \in DOMAIN f.dirs :
                       f.dirs[i] \in { <<".", "g", "i", "t">>,
                              <<"n", "o", "d", "e", "_", "m", "o", "d", "u", "l", "e", "s">>,
                              <<".", "v", "e", "n", "v">>,
                              <<"v", "e", "n", "v">>,
                              <<"_", "_", "p", "y", "c", "a", "c", "h", "e", "_", "_">> }
                  \/ \E i \in DOMAIN f.dirs :
                       /\ i + 1 \in DOMAIN f.dirs
                       /\ f.dirs[i] = <<"a", "l", "e", "m", "b", "i", "c">>
                       /\ f.dirs[i + 1] = <<"v", "e", "r", "s", "i", "o", "n", "s">>
            IN  /\ excluded => f \notin calc.out
                /\ (~excluded /\ f.readable
                      /\ PathSuffix(f.name) \in relevant_extensions)
                   => f \in calc.out

(***************************************************************************)
(* Response parsing in call_claude() of the four scripts.  A response is a *)
(* sequence of tokens: "fence" three backticks, "json" the language tag,   *)
(* "ws" whitespace, "prose" text without braces, "{" and "}" the braces of *)
(* a JSON object and "v" its content; a "fence" between the braces is a    *)
(* fence inside a string value, as in a generated Markdown file.           *)
(***************************************************************************)
MaxMembers == 2

\* str.strip(): leading and trailing whitespace removed.
StripWs(raw) ==
    LET solid == {i \in DOMAIN raw : raw[i] # "ws"}
    IN  IF solid = {} THEN <<>>
        ELSE SubSeq(raw, CHOOSE i \in solid : \A k \in solid : i <= k,
                         CHOOSE i \in solid : \A k \in solid : k <= i)

\* json.loads(raw): whitespace around the document is accepted; the
\* document must be one object, here an opening brace, members and a
\* closing brace.
json_loads(raw) ==
    LET doc == StripWs(raw)
    IN  IF /\ Len(doc) >= 2
           /\ doc[1] = "{"
           /\ doc[Len(doc)] = "}"
           /\ \A i \in 2..(Len(doc) - 1) : doc[i] \in {"v", "fence"}
        THEN [ok |-> TRUE, obj |-> doc]
        ELSE [ok |-> FALSE, obj |-> <<"JSONDecodeError">>]

\* The lines between messages.create() and the return of call_claude().
\* The three scripts backend_agent.py, code_reviewer.py and
\* backend_agent_fix.py strip a leading fence only; frontend_agent.py also
\* cuts from the first "{" to the last "}".
call_claude_parse(component, text) ==
    LET raw0   == StripWs(text)
        fenced == raw0 # <<>> /\ raw0[1] = "fence"
        later  == {i \in 2..Len(raw0) : raw0[i] = "fence"}
        piece  == IF later = {} THEN SubSeq(raw0, 2, Len(raw0))
                  ELSE SubSeq(raw0, 2,
                              (CHOOSE i \in later : \A k \in later : i <= k) - 1)
        untag  == IF piece # <<>> /\ piece[1] = "json"
                  THEN SubSeq(piece, 2, Len(piece)) ELSE piece
        raw1   == IF fenced THEN StripWs(untag) ELSE raw0
        opens  == {i \in DOMAIN raw1 : raw1[i] = "{"}
        closes == {i \in DOMAIN raw1 : raw1[i] = "}"}
        start  == IF opens = {} THEN 0 - 1
                  ELSE (CHOOSE i \in opens : \A k \in opens : i <= k) - 1
        end    == IF closes = {} THEN 0
                  ELSE CHOOSE i \in closes : \A k \in closes : k <= i
        raw2   == IF component = "frontend" /\ start # 0 - 1 /\ end > start
                  THEN SubSeq(raw1, start + 1, end) ELSE raw1
    IN  json_loads(raw2)

InitParse ==
    /\ InitPullRequest
    /\ prAuthor = "backend-agent"
    /\ asScript = TRUE
    /\ reviews = <<>>
    /\ inlineComments = <<>>
    /\ pendingFix = 0
    /\ pendingReview = {}
    /\ missing = "none"
    /\ \E component \in {"backend", "frontend", "reviewer", "fixer"},
          n \in 0..MaxMembers, before \in BOOLEAN, after \in BOOLEAN,
          fence \in {"none", "plain", "tagged"}, whole \in BOOLEAN :
         \E members \in [1..n -> {"v", "fence"}] :
           LET object == <<"{">> \o members \o
                         (IF whole THEN <<"}">> ELSE <<>>)
               inner  == (IF before THEN <<"prose", "ws">> ELSE <<>>)
                         \o object \o
                         (IF after THEN <<"ws", "prose">> ELSE <<>>)
               text   == CASE fence = "none"   -> inner
                           [] fence = "plain"  ->
                                <<"fence", "ws">> \o inner \o <<"ws", "fence">>
                           [] fence = "tagged" ->
                                <<"fence", "json", "ws">> \o inner
                                \o <<"ws", "fence", "ws">>
           IN calc = [NoCalc EXCEPT
                        !.op = "call_claude",
                        !.in = [component |-> component, text |-> text,
                                object |-> object, valid |-> whole]]

ApplyParse ==
    /\ calc.op = "call_claude"
    /\ ~calc.done
    /\ calc' = [calc EXCEPT
                  !.out = <<call_claude_parse(calc.in.component, calc.in.text)>>,
                  !.done = TRUE]
    /\ UNCHANGED progVars

SpecParse == InitParse /\ [][ApplyParse]_vars

\* C32: for a response that is one valid JSON object, optionally wrapped in
\* one leading and trailing code fence and optionally preceded or followed
\* by text outside the outermost braces, the parser of each of the four
\* components returns that object; a response that holds no valid object
\* ends in a parse error.
ParserReturnsTheObject ==
    (calc.op = "call_claude" /\ calc.done) =>
        /\ calc.in.valid =>
              calc.out = <<[ok |-> TRUE, obj |-> calc.in.object]>>
        /\ ~calc.in.valid => ~calc.out[1].ok

====
